---- MODULE Spec2Model ----
(***************************************************************************)
(* A model of hue_mcp: the bridge client's request executor               *)
(* (AsyncHueClient._safe_request) and the light/room control manager      *)
(* (LightManager), translated from src/src/hue_mcp/hue_client.py and      *)
(* src/src/hue_mcp/light_manager.py.                                      *)
(*                                                                         *)
(* The specifications share the definitions below:                        *)
(*   SpecReq      one _safe_request call, one HTTP attempt per step;      *)
(*   Spec         the LightManager public operations under ROOM_MAPPINGS; *)
(*   SpecRoom     a room fan-out over a room larger than the semaphore;   *)
(*   SpecLimiter  callers of HueRateLimiter over time (SpecLimiterFair    *)
(*                adds the fairness of the event loop and the clock);     *)
(*   SpecTool     the MCP tools hue_control_light and hue_get_light_state *)
(*                over LightManager, real or patched as in the tests.     *)
(***************************************************************************)
EXTENDS Integers, Sequences, FiniteSets, TLC

VARIABLES
    rq,             \* the running _safe_request call (SpecReq)
    room_mappings,  \* LightManager.room_mappings
    request,        \* the public operation in progress, or NoRequest
    faults,         \* the kinds of bridge misbehaviour possible during it
    tasks,          \* the control_light invocations of the operation
    semaphore,      \* asyncio.Semaphore(5)._value of the room fan-out
    bridgeOn,       \* the bridge: state.on of every light
    calls,          \* client operations issued by the operation in progress
    response,       \* the HueResponse returned, or NoResponse
    thrown,         \* the exception raised inside the operation's try block
    escaped,        \* the exception that left the public operation, or NoError
    now,            \* time.time(), in ticks of 1 / light_rate_limit seconds
    limiters,       \* the HueRateLimiter instances constructed so far
    callers,        \* the coroutines calling control_light / control_group
    grants,         \* the slots granted so far, each followed by the call's PUT
    tool            \* the MCP tool call in progress (SpecTool)

limVars == <<now, limiters, callers, grants>>

vars == <<rq, room_mappings, request, faults, tasks, semaphore, bridgeOn,
          calls, response, thrown, escaped, limVars, tool>>

mgrVars == <<room_mappings, request, faults, tasks, semaphore, bridgeOn,
             calls, response, thrown, escaped>>

(***************************************************************************)
(* Values shared by the client and the manager.                           *)
(***************************************************************************)
None == "None"

NoError == [kind |-> "NoError", msg |-> <<>>]

\* An exception instance: its class name and str(e), kept as a tuple of parts.
Error(kind, msg) == [kind |-> kind, msg |-> msg]

(***************************************************************************)
(* HTTP responses and bodies.  A transport fault has status 0.            *)
(***************************************************************************)
NoObj == [shape |-> "none"]

NoBody == [list |-> FALSE, items |-> <<>>, obj |-> NoObj]

\* response.json() giving a dict
ObjBody(obj) == [list |-> FALSE, items |-> <<>>, obj |-> obj]

\* response.json() giving a list of dicts; each item is the dict's key set and
\* its error description (None when error has no "description")
ListBody(items) == [list |-> TRUE, items |-> items, obj |-> NoObj]

Item(keys, desc) == [keys |-> keys, desc |-> desc]

SuccessItem == Item({"success"}, None)

ErrorItem == Item({"error"}, "resource not available")

ErrorItemNoDesc == Item({"error"}, None)

BothItem == Item({"success", "error"}, "parameter not modifiable")

OtherItem == Item({}, None)

Timeout == [kind |-> "timeout", status |-> 0, body |-> NoBody]

NetErr == [kind |-> "neterr", status |-> 0, body |-> NoBody]

Http(status, body) == [kind |-> "http", status |-> status, body |-> body]

(***************************************************************************)
(* AsyncHueClient._safe_request                                           *)
(***************************************************************************)
DefaultRetries == 3

\* str.upper() on the method names in use
Upper(method) ==
    CASE method = "get" -> "GET"
      [] method = "put" -> "PUT"
      [] method = "post" -> "POST"
      [] OTHER -> method

Pow2(n) == IF n = 0 THEN 1 ELSE IF n = 1 THEN 2 ELSE IF n = 2 THEN 4
           ELSE IF n = 3 THEN 8 ELSE 16

\* asyncio.sleep(1.0 * (2**attempt)), in milliseconds
RateLimitBackoff(attempt) == 1000 * Pow2(attempt)

\* asyncio.sleep(0.5 * (2**attempt)), in milliseconds
FaultBackoff(attempt) == 500 * Pow2(attempt)

Return(val) == [t |-> "return", val |-> val, err |-> NoError, sleep |-> 0]

Raise(kind, msg) == [t |-> "raise", val |-> NoBody, err |-> Error(kind, msg), sleep |-> 0]

Retry(ms) == [t |-> "retry", val |-> NoBody, err |-> NoError, sleep |-> ms]

\* error.get('description', 'Unknown error')
Description(item) == IF item.desc = None THEN "Unknown error" ELSE item.desc

\* a decoding that looks for the error entry in the answers to a PUT only
Decode_ErrorOnPutOnly(method, body) ==
    IF body.list /\ Upper(method) = "PUT"
    THEN IF Len(body.items) > 0 /\ "success" \in body.items[1].keys
         THEN Return(ObjBody([shape |-> "item", item |-> body.items[1]]))
         ELSE IF Len(body.items) > 0 /\ "error" \in body.items[1].keys
              THEN Raise("HueError", <<"Hue API error: ", Description(body.items[1])>>)
              ELSE Return(body)
    ELSE Return(body)

\* a decoding that hands a PUT's list back whole, success element or not
Decode_ListAsIs(method, body) ==
    IF body.list /\ Len(body.items) > 0 /\ "error" \in body.items[1].keys
    THEN Raise("HueError", <<"Hue API error: ", Description(body.items[1])>>)
    ELSE Return(body)

\* lines 174-199: the decoding of a 2xx body
Decode(method, body) ==
    IF body.list /\ Len(body.items) > 0 /\ "error" \in body.items[1].keys
    THEN Raise("HueError", <<"Hue API error: ", Description(body.items[1])>>)
    ELSE IF body.list /\ Upper(method) = "PUT"
         THEN IF Len(body.items) > 0 /\ "success" \in body.items[1].keys
              THEN Return(ObjBody([shape |-> "item", item |-> body.items[1]]))
              ELSE Return(body)
         ELSE Return(body)

\* response.raise_for_status(): httpx.HTTPStatusError, which is neither a
\* TimeoutException nor a RequestError, so no except clause of the loop takes it
RaiseForStatus(method, status, body) ==
    IF status \in 200..299
    THEN Decode(method, body)
    ELSE Raise("HTTPStatusError", <<"status ", status>>)

\* a 429 raised as a rate-limit error instead of being retried
HandleStatus_429Raises(method, endpoint, attempt, status, body) ==
    CASE status = 429 -> Raise("HueRateLimitError", <<"Rate limited">>)
      [] status = 404 -> Raise("HueValidationError", <<"Resource not found: ", endpoint>>)
      [] status = 401 -> Raise("HueConnectionError", <<"Invalid username/authentication">>)
      [] OTHER -> RaiseForStatus(method, status, body)

\* 404 and 401 left to the generic retry path
HandleStatus_404Retried(method, endpoint, attempt, status, body) ==
    CASE status \in {429, 404, 401} -> Retry(RateLimitBackoff(attempt))
      [] OTHER -> RaiseForStatus(method, status, body)

\* lines 163-173: the status codes handled before raise_for_status
HandleStatus(method, endpoint, attempt, status, body) ==
    CASE status = 429 -> Retry(RateLimitBackoff(attempt))
      [] status = 404 -> Raise("HueValidationError", <<"Resource not found: ", endpoint>>)
      [] status = 401 -> Raise("HueConnectionError", <<"Invalid username/authentication">>)
      [] OTHER -> RaiseForStatus(method, status, body)

\* except clauses that never see a final attempt
HandleFault_NeverFinal(attempt, retries, resp) ==
    Retry(FaultBackoff(attempt))

\* except clauses that end every exhausted call in HueConnectionError
HandleFault_AlwaysConnection(attempt, retries, resp) ==
    IF attempt = retries - 1
    THEN Raise("HueConnectionError", <<"Request failed after ", retries, " attempts">>)
    ELSE Retry(FaultBackoff(attempt))

\* lines 201-213: the two except clauses
HandleFault(attempt, retries, resp) ==
    IF resp.kind = "timeout"
    THEN IF attempt = retries - 1
         THEN Raise("HueTimeoutError", <<"Request timeout after ", retries, " attempts">>)
         ELSE Retry(FaultBackoff(attempt))
    ELSE IF attempt = retries - 1
         THEN Raise("HueConnectionError", <<"Request failed after ", retries, " attempts">>)
         ELSE Retry(FaultBackoff(attempt))

SupportedMethod(method) == Upper(method) \in {"GET", "PUT"}

\* One iteration of the loop body for the response the HTTP call got.
Attempt(method, endpoint, attempt, retries, resp) ==
    IF resp.kind = "http"
    THEN HandleStatus(method, endpoint, attempt, resp.status, resp.body)
    ELSE HandleFault(attempt, retries, resp)

\* line 161: no HTTP call is made for another method
UnsupportedMethod(method) == Raise("ValueError", <<"Unsupported method: ", method>>)

\* a loop that ends, after the last 429, in a rate-limit error
LoopExhausted_RateLimit == Raise("HueRateLimitError", <<"Rate limit exceeded">>)

\* line 215: the loop ended without returning or raising
LoopExhausted == Raise("HueConnectionError", <<"Unexpected error in request handling">>)

(***************************************************************************)
(* SpecReq: one _safe_request call, attempt by attempt.                   *)
(***************************************************************************)
Methods == {"GET", "PUT", "get", "POST"}

Endpoints == {<<"lights">>, <<"lights", 1, "state">>, <<"config">>}

Bodies == {ObjBody([shape |-> "payload"]), ListBody(<<>>), ListBody(<<SuccessItem>>),
           ListBody(<<ErrorItem>>), ListBody(<<ErrorItemNoDesc>>),
           ListBody(<<BothItem>>), ListBody(<<OtherItem>>)}

Responses == {Timeout, NetErr} \cup {Http(s, NoBody) : s \in {429, 404, 401, 500}}
             \cup {Http(200, b) : b \in Bodies}

RqIdle == [phase |-> "idle", method |-> "GET", endpoint |-> <<>>, retries |-> 0,
           attempt |-> 0, http |-> 0, sleeps |-> <<>>, hist |-> <<>>,
           result |-> Return(NoBody), connected |-> "pending"]

RqStart(method, endpoint, retries) ==
    [phase |-> IF retries > 0 THEN "ready" ELSE "raised",
     method |-> method, endpoint |-> endpoint, retries |-> retries,
     attempt |-> 0, http |-> 0, sleeps |-> <<>>, hist |-> <<>>,
     result |-> IF retries > 0 THEN Return(NoBody) ELSE LoopExhausted,
     connected |-> "pending"]

\* The state of the call after the loop body ran once on response resp.
RqAfter(r, resp) ==
    IF ~SupportedMethod(r.method)
    THEN [r EXCEPT !.phase = "raised", !.result = UnsupportedMethod(r.method)]
    ELSE LET o == Attempt(r.method, r.endpoint, r.attempt, r.retries, resp)
             r1 == [r EXCEPT !.http = @ + 1, !.hist = Append(@, resp)]
         IN CASE o.t = "return" -> [r1 EXCEPT !.phase = "returned", !.result = o]
              [] o.t = "raise" -> [r1 EXCEPT !.phase = "raised", !.result = o]
              [] OTHER -> [r1 EXCEPT !.phase = "sleeping", !.sleeps = Append(@, o.sleep)]

\* a loop that runs one iteration more than retries
RqWake_OneMore(r) ==
    IF r.attempt + 1 <= r.retries
    THEN [r EXCEPT !.phase = "ready", !.attempt = @ + 1]
    ELSE [r EXCEPT !.phase = "raised", !.result = LoopExhausted]

\* asyncio.sleep returned: the next iteration, or the end of the loop
RqWake(r) ==
    IF r.attempt + 1 < r.retries
    THEN [r EXCEPT !.phase = "ready", !.attempt = @ + 1]
    ELSE [r EXCEPT !.phase = "raised", !.result = LoopExhausted]

(***************************************************************************)
(* A whole _safe_request call: the loop of SpecReq run to its end, for    *)
(* every way the HTTP calls can be answered from a set of responses.      *)
(***************************************************************************)
RECURSIVE RqOutcomes(_, _)
RqOutcomes(r, S) ==
    IF r.phase = "sleeping" THEN RqOutcomes(RqWake(r), S)
    ELSE IF r.phase \in {"returned", "raised"} THEN {r}
    ELSE UNION {RqOutcomes(RqAfter(r, resp), S) : resp \in S}

SafeRequest(method, endpoint, S) ==
    RqOutcomes(RqStart(method, endpoint, DefaultRetries), S)

(***************************************************************************)
(* config.py                                                              *)
(***************************************************************************)
\* ROOM_MAPPINGS, in the dict's order; "all" maps to the group id 0
ROOM_MAPPINGS ==
    << <<"kitchen", <<10, 12, 13, 17>> >>,
       <<"bedroom", <<1, 4>> >>,
       <<"office", <<7>> >>,
       <<"basement", <<5, 6, 14, 15, 16>> >>,
       <<"living_room", <<3>> >>,
       <<"all", <<0>> >> >>

\* list(mapping.keys())
Keys(mapping) == [i \in DOMAIN mapping |-> mapping[i][1]]

\* room in mapping
HasKey(mapping, room) == \E i \in DOMAIN mapping : mapping[i][1] = room

\* mapping[room]
Lookup(mapping, room) ==
    mapping[CHOOSE i \in DOMAIN mapping : mapping[i][1] = room][2]

(***************************************************************************)
(* Requests and results (light_manager.py, lines 15-81).                  *)
(***************************************************************************)
\* Optional[int] = None
NoneInt == -1

DefaultBrightness == 200

DefaultColorTemp == 366

Params(brightness, color_temp, red, green, blue, hue, saturation) ==
    [brightness |-> brightness, color_temp |-> color_temp, red |-> red,
     green |-> green, blue |-> blue, hue |-> hue, saturation |-> saturation]

LightControlRequest(light_id, action, p) ==
    [op |-> "control_light", light_id |-> light_id, room |-> None,
     action |-> action, p |-> p]

RoomControlRequest(room, action, p) ==
    [op |-> "control_room", light_id |-> NoneInt, room |-> room,
     action |-> action, p |-> p]

NoParams == Params(NoneInt, NoneInt, NoneInt, NoneInt, NoneInt, NoneInt, NoneInt)

PlainRequest(op, light_id) ==
    [op |-> op, light_id |-> light_id, room |-> None, action |-> None, p |-> NoParams]

NoRequest == PlainRequest("none", NoneInt)

\* the data of a HueResponse: an error tag, a client payload, or room counts
NoData ==
    [shape |-> "none", error_type |-> None, payload |-> NoBody,
     successful_operations |-> 0, failed_operations |-> 0, details |-> <<>>]

ErrorData(kind) == [NoData EXCEPT !.shape = "error", !.error_type = kind]

PayloadData(body) == [NoData EXCEPT !.shape = "payload", !.payload = body]

RoomData(ok, failed, details) ==
    [NoData EXCEPT !.shape = "room", !.successful_operations = ok,
                   !.failed_operations = failed, !.details = details]

\* HueResponse; returned tells a response from the absence of one
HueResponse(success, message, data, lights_affected) ==
    [returned |-> TRUE, success |-> success, message |-> message, data |-> data,
     lights_affected |-> lights_affected]

NoResponse ==
    [returned |-> FALSE, success |-> FALSE, message |-> <<>>, data |-> NoData,
     lights_affected |-> <<>>]

\* the except clause of every public operation (e.g. lines 293-297)
Failure(err) == HueResponse(FALSE, err.msg, ErrorData(err.kind), <<>>)

\* the exception classes the model raises; all derive from Exception
HueErrors == {"HueError", "HueConnectionError", "HueTimeoutError",
              "HueValidationError", "HueRateLimitError"}

Exceptions == HueErrors \cup {"HTTPStatusError", "ValueError", "AttributeError",
                             "ValidationError", "TypeError"}

\* an except clause that takes the bridge client's own errors only
Catch_OnlyHueError(err) ==
    IF err.kind \in HueErrors
    THEN [response |-> Failure(err), escaped |-> NoError]
    ELSE [response |-> NoResponse, escaped |-> err]

\* "except Exception as e": what the caller of a public operation gets for an
\* exception raised inside its try block
Catch(err) ==
    IF err.kind \in Exceptions
    THEN [response |-> Failure(err), escaped |-> NoError]
    ELSE [response |-> NoResponse, escaped |-> err]

\* a test_connection that swallows the client's own errors only
TestConnection_OnlyHueError(result) ==
    IF result.t = "return" THEN "true"
    ELSE IF result.err.kind \in HueErrors THEN "false"
    ELSE "raised"

\* AsyncHueClient.test_connection: True when get_config returned, False when
\* it raised an Exception ("raised" if the exception were to pass through)
TestConnection(result) ==
    IF result.t = "return" THEN "true"
    ELSE IF result.err.kind \in Exceptions THEN "false"
    ELSE "raised"

(***************************************************************************)
(* LightManager: validation, capabilities, state building.                *)
(***************************************************************************)
Ok == [err |-> NoError]

\* the lower bound of the id range off by one
ValidateLightId_ZeroAccepted(light_id) ==
    IF light_id < 0 \/ light_id > 17
    THEN Error("HueValidationError",
               <<"Light ID ", light_id, " is not valid. Must be 1-17.">>)
    ELSE NoError

\* _validate_light_id
ValidateLightId(light_id) ==
    IF light_id < 1 \/ light_id > 17
    THEN Error("HueValidationError",
               <<"Light ID ", light_id, " is not valid. Must be 1-17.">>)
    ELSE NoError

\* the message without the known rooms
ValidateRoom_NoList(mapping, room) ==
    IF ~HasKey(mapping, room)
    THEN Error("HueValidationError", <<"Unknown room '", room, "'.">>)
    ELSE NoError

\* _validate_room
ValidateRoom(mapping, room) ==
    IF ~HasKey(mapping, room)
    THEN Error("HueValidationError",
               <<"Unknown room '", room, "'. Available rooms: ", Keys(mapping)>>)
    ELSE NoError

\* str.lower() on the words of the device types in use
LowerWord(w) ==
    CASE w = "Extended" -> "extended"
      [] w = "Color" -> "color"
      [] w = "Dimmable" -> "dimmable"
      [] w = "On/Off" -> "on/off"
      [] OTHER -> w

Lower(words) == [i \in DOMAIN words |-> LowerWord(words[i])]

\* sub in s, on strings kept as sequences of words
Contains(sub, s) ==
    \E i \in 0..(Len(s) - Len(sub)) : SubSeq(s, i + 1, i + Len(sub)) = sub

\* a light object of the bridge: type, state.on (when present) and the keys of
\* capabilities.control
LightObj(type, has_on, on, control) ==
    [shape |-> "light", type |-> type, has_on |-> has_on, on |-> on,
     control |-> control]

\* _supports_color_temp
SupportsColorTemp(light_info) ==
    LET light_type == Lower(light_info.type)
        color_temp_types == {<<"color", "temperature", "light">>,
                             <<"extended", "color", "light">>,
                             <<"color", "light">>,
                             <<"tunable", "white", "light">>}
    IN \/ \E ct_type \in color_temp_types : Contains(ct_type, light_type)
       \/ "ct" \in light_info.control

\* _supports_color
SupportsColor(light_info) ==
    LET light_type == Lower(light_info.type)
        color_types == {<<"extended", "color", "light">>, <<"color", "light">>}
    IN \/ \E color_type \in color_types : Contains(color_type, light_type)
       \/ \E key \in {"xy", "hue", "sat"} : key \in light_info.control

\* _rgb_to_xy on the colours the requests use, in units of 1/10000
RgbToXy(red, green, blue) ==
    CASE red = 0 /\ green = 0 /\ blue = 0 -> <<0, 0>>
      [] red = 255 /\ green = 0 /\ blue = 0 -> <<6400, 3300>>
      [] red = 255 /\ green = 255 /\ blue = 255 -> <<3127, 3290>>
      [] OTHER -> <<3127, 3290>>

\* a state dict: the keys present and their values
EmptyState ==
    [keys |-> {}, on |-> FALSE, bri |-> NoneInt, ct |-> NoneInt, xy |-> <<>>,
     hue |-> NoneInt, sat |-> NoneInt]

Built(state) == [err |-> NoError, state |-> state]

BuildFailed(err) == [err |-> err, state |-> EmptyState]

AttributeError == Error("AttributeError", <<"'list' object has no attribute 'get'">>)

\* colour keys for every representation the request supplies
ColorKeys_EveryGiven(state, p, info) ==
    LET s1 == IF SupportsColor(info.obj) /\ p.red # NoneInt /\ p.green # NoneInt
                 /\ p.blue # NoneInt
              THEN [state EXCEPT !.keys = @ \cup {"xy"},
                                 !.xy = RgbToXy(p.red, p.green, p.blue)]
              ELSE state
        s2 == IF SupportsColor(info.obj) /\ p.hue # NoneInt /\ p.saturation # NoneInt
              THEN [s1 EXCEPT !.keys = @ \cup {"hue", "sat"},
                              !.hue = p.hue, !.sat = p.saturation]
              ELSE s1
    IN IF p.color_temp # NoneInt /\ SupportsColorTemp(info.obj)
       THEN [s2 EXCEPT !.keys = @ \cup {"ct"}, !.ct = p.color_temp]
       ELSE s2

\* colour keys chosen by priority without asking what the light supports
ColorKeys_AnyLight(state, p, info) ==
    IF p.red # NoneInt /\ p.green # NoneInt /\ p.blue # NoneInt
    THEN [state EXCEPT !.keys = @ \cup {"xy"},
                       !.xy = RgbToXy(p.red, p.green, p.blue)]
    ELSE IF p.hue # NoneInt /\ p.saturation # NoneInt
    THEN [state EXCEPT !.keys = @ \cup {"hue", "sat"},
                       !.hue = p.hue, !.sat = p.saturation]
    ELSE IF p.color_temp # NoneInt
    THEN [state EXCEPT !.keys = @ \cup {"ct"}, !.ct = p.color_temp]
    ELSE state

\* lines 206-228: the colour keys of an "on" state; info is the GET's body
ColorKeys(state, p, info) ==
    IF SupportsColor(info.obj)
    THEN IF p.red # NoneInt /\ p.green # NoneInt /\ p.blue # NoneInt
         THEN [state EXCEPT !.keys = @ \cup {"xy"},
                            !.xy = RgbToXy(p.red, p.green, p.blue)]
         ELSE IF p.hue # NoneInt /\ p.saturation # NoneInt
         THEN [state EXCEPT !.keys = @ \cup {"hue", "sat"},
                            !.hue = p.hue, !.sat = p.saturation]
         ELSE IF p.color_temp # NoneInt /\ SupportsColorTemp(info.obj)
         THEN [state EXCEPT !.keys = @ \cup {"ct"}, !.ct = p.color_temp]
         ELSE state
    ELSE IF p.color_temp # NoneInt /\ SupportsColorTemp(info.obj)
         THEN [state EXCEPT !.keys = @ \cup {"ct"}, !.ct = p.color_temp]
         ELSE state

\* an "off" state that keeps the request's brightness
BuildLightState_OffWithBri(action, p, info) ==
    CASE action = "on" ->
           LET s1 == [EmptyState EXCEPT !.keys = {"on"}, !.on = TRUE]
               s2 == IF p.brightness # NoneInt
                     THEN [s1 EXCEPT !.keys = @ \cup {"bri"}, !.bri = p.brightness]
                     ELSE s1
           IN IF info.list THEN BuildFailed(AttributeError)
              ELSE Built(ColorKeys(s2, p, info))
      [] action = "off" ->
           Built([EmptyState EXCEPT !.keys = IF p.brightness # NoneInt
                                             THEN {"on", "bri"} ELSE {"on"},
                                    !.on = FALSE, !.bri = p.brightness])
      [] action = "toggle" -> Built(EmptyState)
      [] OTHER ->
           BuildFailed(Error("HueValidationError",
               <<"Invalid action '", action, "'. Must be 'on', 'off', or 'toggle'.">>))

\* _build_light_state; light_info is never None in control_light, and a body
\* that is a list has no .get
BuildLightState(action, p, info) ==
    CASE action = "on" ->
           LET s1 == [EmptyState EXCEPT !.keys = {"on"}, !.on = TRUE]
               s2 == IF p.brightness # NoneInt
                     THEN [s1 EXCEPT !.keys = @ \cup {"bri"}, !.bri = p.brightness]
                     ELSE s1
           IN IF info.list THEN BuildFailed(AttributeError)
              ELSE Built(ColorKeys(s2, p, info))
      [] action = "off" -> Built([EmptyState EXCEPT !.keys = {"on"}, !.on = FALSE])
      [] action = "toggle" -> Built(EmptyState)
      [] OTHER ->
           BuildFailed(Error("HueValidationError",
               <<"Invalid action '", action, "'. Must be 'on', 'off', or 'toggle'.">>))

\* light_info.get("state", {}).get("on", False)
CurrentOn(info) == info.obj.has_on /\ info.obj.on

\* a toggle that re-sends the current state instead of its opposite
LightState_SameAsCurrent(action, p, info) ==
    IF action = "toggle"
    THEN IF info.list THEN BuildFailed(AttributeError)
         ELSE LET new_action == IF CurrentOn(info) THEN "on" ELSE "off"
              IN BuildLightState(new_action, p, info)
    ELSE BuildLightState(action, p, info)

\* lines 251-277: the state control_light sends for a request, given the GET's body
LightState(action, p, info) ==
    IF action = "toggle"
    THEN IF info.list THEN BuildFailed(AttributeError)
         ELSE LET new_action == IF CurrentOn(info) THEN "off" ELSE "on"
              IN BuildLightState(new_action, p, info)
    ELSE BuildLightState(action, p, info)

\* what the try block of an operation ends with: a response or an exception
Responds(res) == [err |-> NoError, response |-> res]

Raises(err) == [err |-> err, response |-> NoResponse]

\* HueResponse(data=result): the field takes a dict only
DictExpected ==
    Error("ValidationError", <<"data: Input should be a valid dictionary">>)

\* lines 286-291
LightSuccess(light_id, action, result) ==
    IF result.list
    THEN Raises(DictExpected)
    ELSE Responds(HueResponse(TRUE,
                      <<"Light ", light_id, " ", action, " successfully">>,
                      PayloadData(result), <<light_id>>))

(***************************************************************************)
(* The bridge as the manager sees it.                                     *)
(***************************************************************************)
Lights == 1..17

\* the devices behind the light ids: type and capabilities.control keys
DeviceType(l) ==
    CASE l \in {1, 4, 15, 16} -> <<"Extended", "color", "light">>
      [] l = 3 -> <<"Color", "light">>
      [] l \in {7, 14} -> <<"Color", "temperature", "light">>
      [] l = 2 -> <<"On/Off", "plug-in", "unit">>
      [] l \in {8, 9} -> <<>>
      [] OTHER -> <<"Dimmable", "light">>

DeviceControl(l) ==
    CASE l \in {1, 4, 15, 16} -> {"ct", "xy", "hue", "sat"}
      [] l = 3 -> {"xy"}
      [] l \in {7, 14, 9} -> {"ct"}
      [] l = 8 -> {"xy"}
      [] OTHER -> {}

FaultKinds == {"timeout", "neterr", "r429", "r404", "r401", "r500", "errenv",
               "emptylist", "nostate"}

\* the bridge's good answer to a client call
OkResponse(call, l, on) ==
    CASE call = "light_get" ->
           Http(200, ObjBody(LightObj(DeviceType(l), TRUE, on[l], DeviceControl(l))))
      [] call \in {"light_put", "group_put"} -> Http(200, ListBody(<<SuccessItem>>))
      [] call = "lights_get" -> Http(200, ObjBody([shape |-> "lights"]))
      [] OTHER -> Http(200, ObjBody([shape |-> "config"]))

\* its answer under a fault of a kind
FaultResponse(kind, call, l) ==
    CASE kind = "timeout" -> Timeout
      [] kind = "neterr" -> NetErr
      [] kind = "r429" -> Http(429, NoBody)
      [] kind = "r404" -> Http(404, NoBody)
      [] kind = "r401" -> Http(401, NoBody)
      [] kind = "r500" -> Http(500, NoBody)
      [] kind = "errenv" -> Http(200, ListBody(<<ErrorItem>>))
      [] kind = "emptylist" -> Http(200, ListBody(<<>>))
      [] OTHER ->
           IF call = "light_get"
           THEN Http(200, ObjBody(LightObj(DeviceType(l), FALSE, FALSE, DeviceControl(l))))
           ELSE Http(200, ObjBody([shape |-> "payload"]))

CallResponses(call, l, on, kinds) ==
    {OkResponse(call, l, on)} \cup {FaultResponse(k, call, l) : k \in kinds}

\* f"{self.base_url}/lights/{light_id}" and the other endpoints
Endpoint(call, id) ==
    CASE call = "light_get" -> <<"lights", id>>
      [] call = "light_put" -> <<"lights", id, "state">>
      [] call = "group_put" -> <<"groups", id, "action">>
      [] call = "lights_get" -> <<"lights">>
      [] OTHER -> <<"config">>

CallMethod(call) == IF call \in {"light_put", "group_put"} THEN "PUT" ELSE "GET"

\* the bridge applied a PUT exactly when it answered with a success element
Applied(r) ==
    /\ r.phase = "returned"
    /\ LET last == r.hist[Len(r.hist)]
       IN last.body.list /\ Len(last.body.items) > 0
          /\ "success" \in last.body.items[1].keys

\* the outcomes a client call can have under the faults possible: what
\* _safe_request returns or raises, and whether the bridge applied the write
RequestOutcomes(call, l, on, kinds) ==
    {[result |-> r.result, applied |-> Applied(r)] :
        r \in SafeRequest(CallMethod(call), Endpoint(call, l),
                          CallResponses(call, l, on, kinds))}

TabledFaults == {{}} \cup {{k} : k \in FaultKinds} \cup {{"timeout", "r429"}}

\* the outcomes of the GET and the PUT of a light, which depend on the light,
\* on its state and on the faults only, computed once
LightCallOutcomes ==
    [call \in {"light_get", "light_put"}, l \in Lights, lit \in BOOLEAN,
     kinds \in TabledFaults |->
        RequestOutcomes(call, l, [x \in Lights |-> lit], kinds)]

\* the outcomes of a client call, looked up where they are tabled
CallOutcomes(call, l, on, kinds) ==
    IF call \in {"light_get", "light_put"} /\ l \in Lights /\ kinds \in TabledFaults
    THEN LightCallOutcomes[call, l, on[l], kinds]
    ELSE RequestOutcomes(call, l, on, kinds)

(***************************************************************************)
(* The coroutines of a public operation.                                  *)
(***************************************************************************)
SemaphoreLimit == 5

Task(kind, light_id, pc, guarded) ==
    [kind |-> kind, light_id |-> light_id, pc |-> pc, guarded |-> guarded,
     read_on |-> "unread", sent |-> EmptyState, result |-> NoResponse,
     thrown |-> NoError, raised |-> NoError]

NoCalls == [clients |-> 0, get |-> 0, put |-> 0, group_put |-> 0,
            light_acquire |-> 0, group_acquire |-> 0]

MgrIdle ==
    /\ request = NoRequest
    /\ faults = {}
    /\ tasks = <<>>
    /\ semaphore = 0
    /\ bridgeOn = [l \in Lights |-> l % 2 = 1]
    /\ calls = NoCalls
    /\ response = NoResponse
    /\ thrown = NoError
    /\ escaped = NoError

\* a group toggle that turns the lights on
GroupAction_ToggleOn(action, p) ==
    CASE action \in {"on", "toggle"} ->
           LET s1 == [EmptyState EXCEPT !.keys = {"on"}, !.on = TRUE]
           IN IF p.brightness # NoneInt
              THEN [s1 EXCEPT !.keys = @ \cup {"bri"}, !.bri = p.brightness]
              ELSE s1
      [] action = "off" -> [EmptyState EXCEPT !.keys = {"on"}, !.on = FALSE]
      [] OTHER -> EmptyState

\* lines 381-403: the action of the group write
GroupAction(action, p) ==
    CASE action = "on" ->
           LET s1 == [EmptyState EXCEPT !.keys = {"on"}, !.on = TRUE]
               s2 == IF p.brightness # NoneInt
                     THEN [s1 EXCEPT !.keys = @ \cup {"bri"}, !.bri = p.brightness]
                     ELSE s1
           IN IF p.red # NoneInt /\ p.green # NoneInt /\ p.blue # NoneInt
              THEN [s2 EXCEPT !.keys = @ \cup {"xy"},
                              !.xy = RgbToXy(p.red, p.green, p.blue)]
              ELSE IF p.hue # NoneInt /\ p.saturation # NoneInt
              THEN [s2 EXCEPT !.keys = @ \cup {"hue", "sat"},
                              !.hue = p.hue, !.sat = p.saturation]
              ELSE IF p.color_temp # NoneInt
              THEN [s2 EXCEPT !.keys = @ \cup {"ct"}, !.ct = p.color_temp]
              ELSE s2
      [] action = "off" -> [EmptyState EXCEPT !.keys = {"on"}, !.on = FALSE]
      [] action = "toggle" -> [EmptyState EXCEPT !.keys = {"on"}, !.on = FALSE]
      [] OTHER -> EmptyState

\* lines 328-335: the dict control_single_light returns for a finished task
Detail(t) ==
    IF t.raised.kind # "NoError"
    THEN [light_id |-> t.light_id, has_result |-> FALSE, result |-> NoResponse,
          error |-> t.raised.msg, success |-> FALSE]
    ELSE [light_id |-> t.light_id, has_result |-> TRUE, result |-> t.result,
          error |-> <<>>, success |-> t.result.success]

CountOf(results, wanted) ==
    Cardinality({i \in DOMAIN results : results[i].success = wanted})

\* an aggregate that succeeds as soon as one light did
RoomResponse_AnySuccess(room, light_ids, results) ==
    LET success_count == CountOf(results, TRUE)
        failed_count == CountOf(results, FALSE)
        total_count == Len(light_ids)
    IN HueResponse(success_count > 0,
                   <<"Controlled ", success_count, "/", total_count,
                     " lights in ", room>>,
                   RoomData(success_count, failed_count, results),
                   light_ids)

\* an aggregate that lists the lights whose operation succeeded
RoomResponse_SucceededOnly(room, light_ids, results) ==
    LET success_count == CountOf(results, TRUE)
        failed_count == CountOf(results, FALSE)
        total_count == Len(light_ids)
    IN HueResponse(failed_count = 0,
                   <<"Controlled ", success_count, "/", total_count,
                     " lights in ", room>>,
                   RoomData(success_count, failed_count, results),
                   SelectSeq(light_ids,
                             LAMBDA l : \E i \in DOMAIN results :
                                 results[i].light_id = l /\ results[i].success))

\* lines 341-367: the aggregate of a room fan-out
RoomResponse(room, light_ids, results) ==
    LET success_count == CountOf(results, TRUE)
        failed_count == CountOf(results, FALSE)
        total_count == Len(light_ids)
    IN HueResponse(failed_count = 0,
                   <<"Controlled ", success_count, "/", total_count,
                     " lights in ", room>>,
                   RoomData(success_count, failed_count, results),
                   light_ids)

\* a group result that names no light
GroupSuccess_NoLights(action, result) ==
    IF result.list
    THEN Raises(DictExpected)
    ELSE Responds(HueResponse(TRUE, <<"All lights ", action, " successfully">>,
                              PayloadData(result), <<>>))

\* lines 409-414: the result of the group write
GroupSuccess(action, result) ==
    IF result.list
    THEN Raises(DictExpected)
    ELSE Responds(HueResponse(TRUE, <<"All lights ", action, " successfully">>,
                              PayloadData(result), [i \in 1..17 |-> i]))

\* lines 430-434, 448-450, 464-477: the results of the three queries
QuerySuccess(kind, light_id, result) ==
    IF result.list
    THEN IF kind = "config" THEN Raises(AttributeError) ELSE Raises(DictExpected)
    ELSE CASE kind = "status" ->
                Responds(HueResponse(TRUE, <<"Retrieved status for light ", light_id>>,
                                     PayloadData(result), <<>>))
           [] kind = "list" ->
                Responds(HueResponse(TRUE, <<"Retrieved lights">>,
                                     PayloadData(result), <<>>))
           [] OTHER ->
                Responds(HueResponse(TRUE, <<"Bridge connection successful">>,
                                     PayloadData(ObjBody([shape |-> "bridge_info"])),
                                     <<>>))

(***************************************************************************)
(* The requests and the fault profiles drawn.                             *)
(***************************************************************************)
LightIds == {0, 1, 2, 7, 8, 10, 17, 18}

Actions == {"on", "off", "toggle", "dim"}

\* the field defaults (brightness 200, colour temperature 366, no colour)
DefaultParams ==
    Params(DefaultBrightness, DefaultColorTemp, NoneInt, NoneInt, NoneInt,
           NoneInt, NoneInt)

RgbParams == [DefaultParams EXCEPT !.red = 255, !.green = 0, !.blue = 0]

HueSatParams == [DefaultParams EXCEPT !.hue = 10000, !.saturation = 254]

RgbAndHueSatParams == [RgbParams EXCEPT !.hue = 10000, !.saturation = 254]

PartialRgbParams == [HueSatParams EXCEPT !.red = 255]

ParamSets == {DefaultParams, NoParams, RgbParams, HueSatParams,
              RgbAndHueSatParams, PartialRgbParams}

LightRequests ==
    {LightControlRequest(l, a, p) : l \in LightIds, a \in Actions, p \in ParamSets}

RoomNames == {"kitchen", "bedroom", "office", "basement", "living_room", "all",
              "garage"}

RoomRequests ==
    {RoomControlRequest(r, a, DefaultParams) : r \in RoomNames, a \in Actions}
    \cup {RoomControlRequest(r, "on", RgbParams) : r \in RoomNames}
    \cup {RoomControlRequest("all", a, p) : a \in Actions, p \in ParamSets}

\* a room with more lights than the fan-out's semaphore has slots
ExtraLights == 1

HallMapping ==
    << <<"hall", [i \in 1..(SemaphoreLimit + ExtraLights) |-> i]>>,
       <<"all", <<0>> >> >>

HallRequests ==
    {RoomControlRequest("hall", "toggle", DefaultParams),
     RoomControlRequest("attic", "on", DefaultParams)}

\* what the bridge may do wrong during one operation
Profiles == {{}} \cup {{k} : k \in FaultKinds} \cup {{"timeout", "r429"}}

RoomProfiles == {{"timeout"}}

ProfilesOf(req) ==
    IF req.op = "control_room" /\ req.room # "all" THEN RoomProfiles ELSE Profiles

(***************************************************************************)
(* LightManager's public operations, one step per suspension.             *)
(***************************************************************************)
Idle == request.op = "none"

\* the try block ended with o: what the except clause makes of it
Outcome(o) ==
    IF o.err.kind # "NoError"
    THEN Catch(o.err)
    ELSE [response |-> o.response, escaped |-> NoError]

\* the public operation ends: it returns a response or lets an exception out
Finish(o) ==
    /\ thrown' = o.err
    /\ response' = Outcome(o).response
    /\ escaped' = Outcome(o).escaped

\* control_light, lines 242-249: validation, the client, the GET issued
EnterControlLight(req, f) ==
    /\ request' = req
    /\ faults' = f
    /\ LET err == ValidateLightId(req.light_id)
       IN IF err.kind # "NoError"
          THEN /\ Finish(Raises(err))
               /\ UNCHANGED <<tasks, calls>>
          ELSE /\ tasks' = <<Task("light", req.light_id, "get", FALSE)>>
               /\ calls' = [calls EXCEPT !.clients = @ + 1, !.get = @ + 1]
               /\ UNCHANGED <<response, thrown, escaped>>

\* control_light called on the manager directly
CallControlLight ==
    /\ Idle
    /\ \E req \in LightRequests, f \in Profiles : EnterControlLight(req, f)
    /\ UNCHANGED <<limVars, rq, tool, room_mappings, semaphore, bridgeOn>>

\* control_room, lines 299-339: validation, then the group write or the tasks
ControlRoom(requests) ==
    /\ Idle
    /\ \E req \in requests :
       \E f \in ProfilesOf(req) :
         /\ request' = req
         /\ faults' = f
         /\ LET err == ValidateRoom(room_mappings, req.room)
            IN IF err.kind # "NoError"
               THEN /\ Finish(Raises(err))
                    /\ UNCHANGED <<tasks, calls, semaphore>>
               ELSE IF req.room = "all"
               THEN /\ tasks' = << [Task("group", 0, "put", FALSE)
                                      EXCEPT !.sent = GroupAction(req.action, req.p)] >>
                    /\ calls' = [calls EXCEPT !.clients = @ + 1,
                                              !.group_acquire = @ + 1,
                                              !.group_put = @ + 1]
                    /\ UNCHANGED <<response, thrown, escaped, semaphore>>
               ELSE LET light_ids == Lookup(room_mappings, req.room)
                    IN /\ tasks' = [i \in DOMAIN light_ids |->
                                       Task("light", light_ids[i], "wait", TRUE)]
                       /\ semaphore' = SemaphoreLimit
                       /\ UNCHANGED <<response, thrown, escaped, calls>>
    /\ UNCHANGED <<limVars, rq, tool, room_mappings, bridgeOn>>

CallControlRoom == ControlRoom(RoomRequests)

CallControlHall == ControlRoom(HallRequests)

\* a task that keeps its slot of the semaphore when it finishes
TaskDone_KeepsSlot(i, o) ==
    /\ tasks' = [tasks EXCEPT ![i].pc = "done", ![i].thrown = o.err,
                              ![i].result = Outcome(o).response,
                              ![i].raised = Outcome(o).escaped]
    /\ semaphore' = semaphore
    /\ IF tasks[i].guarded
       THEN UNCHANGED <<response, thrown, escaped>>
       ELSE Finish(o)

\* a finished task: its result recorded, its semaphore slot released
TaskDone(i, o) ==
    /\ tasks' = [tasks EXCEPT ![i].pc = "done", ![i].thrown = o.err,
                              ![i].result = Outcome(o).response,
                              ![i].raised = Outcome(o).escaped]
    /\ semaphore' = IF tasks[i].guarded THEN semaphore + 1 ELSE semaphore
    /\ IF tasks[i].guarded
       THEN UNCHANGED <<response, thrown, escaped>>
       ELSE Finish(o)

\* a fan-out that starts every task without taking a slot
TaskEnter_NoSemaphore(i) ==
    /\ tasks[i].pc = "wait"
    /\ tasks' = [tasks EXCEPT ![i].pc = "get"]
    /\ semaphore' = semaphore - 1
    /\ calls' = [calls EXCEPT !.clients = @ + 1, !.get = @ + 1]
    /\ UNCHANGED <<limVars, rq, tool, room_mappings, request, faults, bridgeOn, response, thrown,
                   escaped>>

\* control_single_light, lines 313-327: a slot of the semaphore, the request
\* built, control_light entered up to its GET.  gather starts the tasks in the
\* order of the list and asyncio.Semaphore wakes its waiters first in, first out.
TaskEnter(i) ==
    /\ tasks[i].pc = "wait"
    /\ \A j \in 1..(i - 1) : tasks[j].pc # "wait"
    /\ semaphore > 0
    /\ IF tasks[i].light_id < 1 \/ tasks[i].light_id > 17
       THEN /\ tasks' = [tasks EXCEPT ![i].pc = "done",
                           ![i].raised = Error("ValidationError",
                               <<"light_id: Input should be in 1..17">>)]
            /\ UNCHANGED <<semaphore, calls>>
       ELSE /\ tasks' = [tasks EXCEPT ![i].pc = "get"]
            /\ semaphore' = semaphore - 1
            /\ calls' = [calls EXCEPT !.clients = @ + 1, !.get = @ + 1]
    /\ UNCHANGED <<limVars, rq, tool, room_mappings, request, faults, bridgeOn, response, thrown,
                   escaped>>

ReadOn(info) ==
    IF info.list THEN "unread"
    ELSE IF ~info.obj.has_on THEN "absent"
    ELSE IF info.obj.on THEN "true" ELSE "false"

\* a control_light that goes on with an empty light info when the read failed
LightGetDone_PutAnyway(i) ==
    /\ tasks[i].kind = "light"
    /\ tasks[i].pc = "get"
    /\ \E r \in CallOutcomes("light_get", tasks[i].light_id, bridgeOn, faults) :
         LET info == IF r.result.t = "raise"
                     THEN ObjBody(LightObj(<<>>, FALSE, FALSE, {}))
                     ELSE r.result.val
             b == LightState(request.action, request.p, info)
         IN IF b.err.kind # "NoError"
            THEN TaskDone(i, Raises(b.err)) /\ UNCHANGED calls
            ELSE /\ tasks' = [tasks EXCEPT ![i].pc = "put",
                                 ![i].read_on = ReadOn(info),
                                 ![i].sent = b.state]
                 /\ calls' = [calls EXCEPT !.light_acquire = @ + 1,
                                           !.put = @ + 1]
                 /\ UNCHANGED <<semaphore, response, thrown, escaped>>
    /\ UNCHANGED <<limVars, rq, tool, room_mappings, request, faults, bridgeOn>>

\* control_light, lines 249-280: the GET answered, the state built, the light
\* slot taken and the PUT issued
LightGetDone(i) ==
    /\ tasks[i].kind = "light"
    /\ tasks[i].pc = "get"
    /\ \E r \in CallOutcomes("light_get", tasks[i].light_id, bridgeOn, faults) :
         IF r.result.t = "raise"
         THEN TaskDone(i, Raises(r.result.err)) /\ UNCHANGED calls
         ELSE LET b == LightState(request.action, request.p, r.result.val)
              IN IF b.err.kind # "NoError"
                 THEN TaskDone(i, Raises(b.err)) /\ UNCHANGED calls
                 ELSE /\ tasks' = [tasks EXCEPT ![i].pc = "put",
                                      ![i].read_on = ReadOn(r.result.val),
                                      ![i].sent = b.state]
                      /\ calls' = [calls EXCEPT !.light_acquire = @ + 1,
                                                !.put = @ + 1]
                      /\ UNCHANGED <<semaphore, response, thrown, escaped>>
    /\ UNCHANGED <<limVars, rq, tool, room_mappings, request, faults, bridgeOn>>

\* control_light, lines 280-291: the PUT answered
LightPutDone(i) ==
    /\ tasks[i].kind = "light"
    /\ tasks[i].pc = "put"
    /\ \E r \in CallOutcomes("light_put", tasks[i].light_id, bridgeOn, faults) :
         /\ IF r.result.t = "raise"
            THEN TaskDone(i, Raises(r.result.err))
            ELSE TaskDone(i, LightSuccess(tasks[i].light_id, request.action,
                                          r.result.val))
         /\ bridgeOn' = IF r.applied /\ "on" \in tasks[i].sent.keys
                        THEN [bridgeOn EXCEPT ![tasks[i].light_id] = tasks[i].sent.on]
                        ELSE bridgeOn
    /\ UNCHANGED <<limVars, rq, tool, room_mappings, request, faults, calls>>

\* a gather that returns at the first failed light
RoomAggregate_FailFast ==
    /\ request.op = "control_room"
    /\ request.room # "all"
    /\ ~response.returned
    /\ HasKey(room_mappings, request.room)
    /\ \/ \A i \in DOMAIN tasks : tasks[i].pc = "done"
       \/ \E i \in DOMAIN tasks : tasks[i].pc = "done" /\ ~tasks[i].result.success
    /\ response' = RoomResponse(request.room, Lookup(room_mappings, request.room),
                                [i \in DOMAIN tasks |-> Detail(tasks[i])])
    /\ UNCHANGED <<limVars, rq, tool, room_mappings, request, faults, tasks, semaphore, bridgeOn,
                   calls, thrown, escaped>>

\* control_room, lines 339-367: gather returned, the aggregate
RoomAggregate ==
    /\ request.op = "control_room"
    /\ request.room # "all"
    /\ ~response.returned
    /\ escaped.kind = "NoError"
    /\ HasKey(room_mappings, request.room)
    /\ \A i \in DOMAIN tasks : tasks[i].pc = "done"
    /\ response' = RoomResponse(request.room, Lookup(room_mappings, request.room),
                                [i \in DOMAIN tasks |-> Detail(tasks[i])])
    /\ UNCHANGED <<limVars, rq, tool, room_mappings, request, faults, tasks, semaphore, bridgeOn,
                   calls, thrown, escaped>>

\* _control_all_lights_group, lines 405-420: the group PUT answered
GroupPutDone ==
    /\ Len(tasks) = 1
    /\ tasks[1].kind = "group"
    /\ tasks[1].pc = "put"
    /\ \E r \in CallOutcomes("group_put", 0, bridgeOn, faults) :
         /\ IF r.result.t = "raise"
            THEN TaskDone(1, Raises(r.result.err))
            ELSE TaskDone(1, GroupSuccess(request.action, r.result.val))
         /\ bridgeOn' = IF r.applied /\ "on" \in tasks[1].sent.keys
                        THEN [l \in Lights |-> tasks[1].sent.on]
                        ELSE bridgeOn
    /\ UNCHANGED <<limVars, rq, tool, room_mappings, request, faults, calls>>

\* get_light_status, lines 422-428
EnterGetLightStatus(light_id, f) ==
    /\ request' = PlainRequest("get_light_status", light_id)
    /\ faults' = f
    /\ LET err == ValidateLightId(light_id)
       IN IF err.kind # "NoError"
          THEN /\ Finish(Raises(err))
               /\ UNCHANGED <<tasks, calls>>
          ELSE /\ tasks' = <<Task("status", light_id, "get", FALSE)>>
               /\ calls' = [calls EXCEPT !.clients = @ + 1, !.get = @ + 1]
               /\ UNCHANGED <<response, thrown, escaped>>

\* get_light_status called on the manager directly
CallGetLightStatus ==
    /\ Idle
    /\ \E light_id \in LightIds, f \in Profiles : EnterGetLightStatus(light_id, f)
    /\ UNCHANGED <<limVars, rq, tool, room_mappings, semaphore, bridgeOn>>

\* list_all_lights, lines 442-446
CallListAllLights ==
    /\ Idle
    /\ \E f \in Profiles :
         /\ request' = PlainRequest("list_all_lights", NoneInt)
         /\ faults' = f
    /\ tasks' = <<Task("list", 0, "get", FALSE)>>
    /\ calls' = [calls EXCEPT !.clients = @ + 1, !.get = @ + 1]
    /\ UNCHANGED <<limVars, rq, tool, room_mappings, semaphore, bridgeOn, response, thrown,
                   escaped>>

\* discover_bridge, lines 458-462
CallDiscoverBridge ==
    /\ Idle
    /\ \E f \in Profiles :
         /\ request' = PlainRequest("discover_bridge", NoneInt)
         /\ faults' = f
    /\ tasks' = <<Task("config", 0, "get", FALSE)>>
    /\ calls' = [calls EXCEPT !.clients = @ + 1, !.get = @ + 1]
    /\ UNCHANGED <<limVars, rq, tool, room_mappings, semaphore, bridgeOn, response, thrown,
                   escaped>>

QueryCall(kind) ==
    CASE kind = "status" -> "light_get"
      [] kind = "list" -> "lights_get"
      [] OTHER -> "config_get"

\* the GET of get_light_status, list_all_lights or discover_bridge answered
QueryDone ==
    /\ Len(tasks) = 1
    /\ tasks[1].kind \in {"status", "list", "config"}
    /\ tasks[1].pc = "get"
    /\ \E r \in CallOutcomes(QueryCall(tasks[1].kind), tasks[1].light_id,
                             bridgeOn, faults) :
         IF r.result.t = "raise"
         THEN TaskDone(1, Raises(r.result.err))
         ELSE TaskDone(1, QuerySuccess(tasks[1].kind, tasks[1].light_id,
                                       r.result.val))
    /\ UNCHANGED <<limVars, rq, tool, room_mappings, request, faults, bridgeOn, calls>>

(***************************************************************************)
(* HueRateLimiter.  Time is counted in ticks of 1 / light_rate_limit      *)
(* seconds, the length of one wait of acquire_light_token, so that one     *)
(* light token is refilled per tick.                                       *)
(***************************************************************************)
\* config.light_rate_limit (an integer from 1 to 100, 10 by default)
light_rate_limit == 2

TicksPerSecond == light_rate_limit

\* config.group_rate_limit, 1.0 second, in ticks
group_rate_limit == TicksPerSecond

\* time.time() when the program starts: later than group_rate_limit s after 0
Epoch == group_rate_limit + 1

Min(a, b) == IF a <= b THEN a ELSE b

\* HueRateLimiter.__init__ at time t; a lock is 0 or the caller holding it
HueRateLimiter(t) ==
    [light_tokens |-> light_rate_limit,
     light_max_tokens |-> light_rate_limit,
     light_refill_rate |-> light_rate_limit,
     light_last_refill |-> t,
     light_lock |-> 0,
     light_waiters |-> <<>>,
     group_last_call |-> 0,
     group_lock |-> 0,
     group_waiters |-> <<>>]

\* a refill that leaves light_last_refill where it was
Refill_KeepsClock(L, t) ==
    LET elapsed == t - L.light_last_refill
        tokens_to_add == (elapsed * L.light_refill_rate) \div TicksPerSecond
    IN [L EXCEPT !.light_tokens = Min(L.light_max_tokens, @ + tokens_to_add)]

\* lines 64-72 and 80-86: the refill for the time elapsed
Refill(L, t) ==
    LET elapsed == t - L.light_last_refill
        tokens_to_add == (elapsed * L.light_refill_rate) \div TicksPerSecond
    IN [L EXCEPT !.light_tokens = Min(L.light_max_tokens, @ + tokens_to_add),
                 !.light_last_refill = t]

\* wait_time = 1.0 / self.light_refill_rate, in ticks
LightWait(L) == TicksPerSecond \div L.light_refill_rate

NoCaller == [pc |-> "idle", kind |-> "none", mgr |-> FALSE, lim |-> 0, start |-> 0,
             wake |-> 0, slept |-> FALSE]

Grant(c, k, t) ==
    [caller |-> c, kind |-> k.kind, mgr |-> k.mgr, lim |-> k.lim,
     start |-> k.start, at |-> t, slept |-> k.slept]

\* What a caller holding a lock does until it sleeps or returns: the new
\* limiter, and either the time to sleep until or the grant.
Holds(L, wake) == [limiter |-> L, sleeps |-> TRUE, wake |-> wake]

Granted(L) == [limiter |-> L, sleeps |-> FALSE, wake |-> 0]

\* a bucket that hands out a token it does not have
LightSection_NoWait(L, c, t) ==
    LET L1 == Refill(L, t)
    IN Granted([L1 EXCEPT !.light_tokens = @ - 1, !.light_lock = 0])

\* acquire_light_token inside the lock: lines 64-89, entered at the top or
\* resumed after the sleep of line 77
LightSection(L, c, t) ==
    LET L1 == Refill(L, t)
    IN IF L1.light_tokens < 1
       THEN Holds([L1 EXCEPT !.light_lock = c], t + LightWait(L1))
       ELSE Granted([L1 EXCEPT !.light_tokens = @ - 1, !.light_lock = 0])

\* a gate that records the call without waiting for the interval
GroupSection_NoWait(L, c, t) ==
    Granted([L EXCEPT !.group_last_call = t, !.group_lock = 0])

\* acquire_group_token inside the lock, from the top: lines 94-102
GroupSection(L, c, t) ==
    LET time_since_last == t - L.group_last_call
    IN IF time_since_last < group_rate_limit
       THEN Holds([L EXCEPT !.group_lock = c], t + (group_rate_limit - time_since_last))
       ELSE Granted([L EXCEPT !.group_last_call = t, !.group_lock = 0])

\* a gate whose lock is still held when the sleeper returns
GroupResume_KeepsLock(L, c, t) == Granted([L EXCEPT !.group_last_call = t])

\* line 102 after the sleep of line 100
GroupResume(L, c, t) == Granted([L EXCEPT !.group_last_call = t, !.group_lock = 0])

Section(kind, L, c, t) ==
    IF kind = "light" THEN LightSection(L, c, t) ELSE GroupSection(L, c, t)

Resume(kind, L, c, t) ==
    IF kind = "light" THEN LightSection(L, c, t) ELSE GroupResume(L, c, t)

\* a lock that looks free to everyone
LockOf_AlwaysFree(kind, L) == 0

\* asyncio.Lock: 0 when unlocked, else the coroutine inside "async with"
LockOf(kind, L) == IF kind = "light" THEN L.light_lock ELSE L.group_lock

WaitersOf(kind, L) == IF kind = "light" THEN L.light_waiters ELSE L.group_waiters

\* asyncio.Lock.acquire when the lock is taken or has waiters: queue up
Enqueue(kind, L, c) ==
    IF kind = "light" THEN [L EXCEPT !.light_waiters = Append(@, c)]
    ELSE [L EXCEPT !.group_waiters = Append(@, c)]

Dequeue(kind, L) ==
    IF kind = "light" THEN [L EXCEPT !.light_waiters = Tail(@)]
    ELSE [L EXCEPT !.group_waiters = Tail(@)]

(***************************************************************************)
(* SpecLimiter: coroutines calling AsyncHueClient.control_light and        *)
(* control_group, either on the one client constructed at the start       *)
(* (limiter 1) or through a LightManager operation, which constructs its  *)
(* own AsyncHueClient and with it its own HueRateLimiter.                 *)
(***************************************************************************)
MaxCallers == 3

MaxCalls == 4

\* ticks that may pass while nobody sleeps
Horizon == 1

Callers == 1..MaxCallers

Active == {c \in Callers : callers[c].pc # "idle"}

LimIdle ==
    /\ now = Epoch
    /\ limiters = <<HueRateLimiter(Epoch)>>
    /\ callers = [c \in Callers |-> NoCaller]
    /\ grants = <<>>

\* The caller c, in state k, ran its critical section with outcome o: it sleeps
\* holding the lock, or it returns from the acquire and the PUT is issued.
Run(c, k, lims, o) ==
    /\ limiters' = [lims EXCEPT ![k.lim] = o.limiter]
    /\ IF o.sleeps
       THEN /\ callers' = [callers EXCEPT ![c] =
                             [k EXCEPT !.pc = "sleep", !.wake = o.wake, !.slept = TRUE]]
            /\ UNCHANGED grants
       ELSE /\ callers' = [callers EXCEPT ![c] = NoCaller]
            /\ grants' = Append(grants, Grant(c, k, now))

\* a client that sends its PUT as soon as it is inside the section
PutSent_BeforeGrant(cs, kind, o) ==
    IF kind = "light" THEN [cs EXCEPT !.put = @ + 1]
    ELSE [cs EXCEPT !.group_put = @ + 1]

\* hue_client.py lines 232 and 240: the PUT follows the return of the acquire
PutSent(cs, kind, o) ==
    IF o.sleeps THEN cs
    ELSE IF kind = "light" THEN [cs EXCEPT !.put = @ + 1]
    ELSE [cs EXCEPT !.group_put = @ + 1]

\* hue_client.py lines 231 and 239: the acquire called, on a client that a
\* LightManager operation has just constructed when mgr
Acquiring(cs, kind, mgr) ==
    LET c1 == IF mgr THEN [cs EXCEPT !.clients = @ + 1] ELSE cs
    IN IF kind = "light" THEN [c1 EXCEPT !.light_acquire = @ + 1]
       ELSE [c1 EXCEPT !.group_acquire = @ + 1]

\* the manager's variables that the callers of the limiter leave alone
mgrRest == <<room_mappings, request, faults, tasks, semaphore, bridgeOn,
             response, thrown, escaped>>

\* hue_client.py lines 231 and 239, reached on the shared client or through
\* light_manager.py lines 247 and 380 (a new AsyncHueClient, line 120: a new
\* HueRateLimiter): "async with lock" enters at once when the lock is free.
\* Idle coroutines are interchangeable: the one of lowest index makes the call.
AcquireCall(c) ==
    /\ callers[c].pc = "idle"
    /\ \A d \in 1..(c - 1) : callers[d].pc # "idle"
    /\ Len(grants) + Cardinality(Active) < MaxCalls
    /\ \E kind \in {"light", "group"}, mgr \in BOOLEAN :
         LET lims == IF mgr THEN Append(limiters, HueRateLimiter(now)) ELSE limiters
             i == IF mgr THEN Len(lims) ELSE 1
             k == [pc |-> "lock", kind |-> kind, mgr |-> mgr, lim |-> i,
                   start |-> now, wake |-> 0, slept |-> FALSE]
         IN IF LockOf(kind, lims[i]) = 0 /\ WaitersOf(kind, lims[i]) = <<>>
            THEN LET o == Section(kind, lims[i], c, now)
                 IN /\ Run(c, k, lims, o)
                    /\ calls' = PutSent(Acquiring(calls, kind, mgr), kind, o)
            ELSE /\ callers' = [callers EXCEPT ![c] = k]
                 /\ limiters' = [lims EXCEPT ![i] = Enqueue(kind, lims[i], c)]
                 /\ calls' = Acquiring(calls, kind, mgr)
                 /\ UNCHANGED grants

LimCall(c) == AcquireCall(c) /\ UNCHANGED <<now, rq, tool, mgrRest>>

\* the lock was released and c is its first waiter
AcquireEnter(c) ==
    /\ callers[c].pc = "lock"
    /\ LET k == callers[c]
           L == limiters[k.lim]
       IN /\ LockOf(k.kind, L) = 0
          /\ WaitersOf(k.kind, L) # <<>>
          /\ Head(WaitersOf(k.kind, L)) = c
          /\ LET o == Section(k.kind, Dequeue(k.kind, L), c, now)
             IN /\ Run(c, k, limiters, o)
                /\ calls' = PutSent(calls, k.kind, o)

LimEnter(c) == AcquireEnter(c) /\ UNCHANGED <<now, rq, tool, mgrRest>>

\* asyncio.sleep returned, no earlier than asked
AcquireWake(c) ==
    /\ callers[c].pc = "sleep"
    /\ now >= callers[c].wake
    /\ LET k == callers[c]
           o == Resume(k.kind, limiters[k.lim], c, now)
       IN /\ Run(c, k, limiters, o)
          /\ calls' = PutSent(calls, k.kind, o)

LimWake(c) == AcquireWake(c) /\ UNCHANGED <<now, rq, tool, mgrRest>>

\* time advances: always while a sleeper is not due, and for a while otherwise
Tick ==
    /\ \/ now < Epoch + Horizon
       \/ \E c \in Callers : callers[c].pc = "sleep" /\ callers[c].wake > now
    /\ now' = now + 1
    /\ UNCHANGED <<limiters, callers, grants, rq, tool, mgrVars>>

(***************************************************************************)
(* The MCP tools of tools/light_control.py.                                *)
(***************************************************************************)
\* Field(ge=lo, le=hi) of an Optional[int]
InRange(v, lo, hi) == v = NoneInt \/ (lo <= v /\ v <= hi)

\* a request model that puts no bounds on the brightness
FieldErrors_BrightnessFree(light_id, p) ==
    (IF 1 <= light_id /\ light_id <= 17 THEN {} ELSE {"light_id"})
    \cup (IF InRange(p.color_temp, 154, 500) THEN {} ELSE {"color_temp"})

\* LightControlRequest(...): the fields pydantic rejects
FieldErrors(light_id, p) ==
    (IF 1 <= light_id /\ light_id <= 17 THEN {} ELSE {"light_id"})
    \cup (IF InRange(p.brightness, 1, 254) THEN {} ELSE {"brightness"})
    \cup (IF InRange(p.color_temp, 154, 500) THEN {} ELSE {"color_temp"})
    \cup (IF InRange(p.red, 0, 255) THEN {} ELSE {"red"})
    \cup (IF InRange(p.green, 0, 255) THEN {} ELSE {"green"})
    \cup (IF InRange(p.blue, 0, 255) THEN {} ELSE {"blue"})
    \cup (IF InRange(p.hue, 0, 65535) THEN {} ELSE {"hue"})
    \cup (IF InRange(p.saturation, 0, 254) THEN {} ELSE {"saturation"})

\* a tool call ends: the JSON of a HueResponse returned, or an exception
ToolReturns(res) == [raised |-> NoError, result |-> res]

ToolRaises(err) == [raised |-> err, result |-> NoResponse]

\* data={"validation_errors": e.errors()}
ValidationData == [NoData EXCEPT !.shape = "validation_errors"]

Unexpected ==
    HueResponse(FALSE, <<"An unexpected error occurred">>,
                ErrorData("UnexpectedError"), <<>>)

\* pydantic's ValidationError derives from ValueError
ValueErrors == {"ValueError", "ValidationError"}

\* except clauses that have no clause for HueError
ControlLightExcept_NoHueClause(err) ==
    IF err.kind = "ValidationError"
    THEN ToolReturns(HueResponse(FALSE, <<"Invalid parameters: ">> \o err.msg,
                                 ValidationData, <<>>))
    ELSE IF err.kind \in Exceptions THEN ToolReturns(Unexpected)
    ELSE ToolRaises(err)

\* hue_control_light, lines 73-94: the except clauses in their order
ControlLightExcept(err) ==
    IF err.kind = "ValidationError"
    THEN ToolReturns(HueResponse(FALSE, <<"Invalid parameters: ">> \o err.msg,
                                 ValidationData, <<>>))
    ELSE IF err.kind \in HueErrors
    THEN ToolReturns(HueResponse(FALSE, err.msg, ErrorData(err.kind), <<>>))
    ELSE IF err.kind \in Exceptions THEN ToolReturns(Unexpected)
    ELSE ToolRaises(err)

\* hue_get_light_state, lines 123-142: the except clauses in their order
GetLightStateExcept(err) ==
    IF err.kind \in ValueErrors
    THEN ToolReturns(HueResponse(FALSE, err.msg, ErrorData("ValidationError"), <<>>))
    ELSE IF err.kind \in HueErrors
    THEN ToolReturns(HueResponse(FALSE, err.msg, ErrorData(err.kind), <<>>))
    ELSE IF err.kind \in Exceptions THEN ToolReturns(Unexpected)
    ELSE ToolRaises(err)

\* hue_control_light, lines 51-94; mgr is how manager.control_light ends
HueControlLight(light_id, action, p, mgr) ==
    LET bad == FieldErrors(light_id, p)
    IN IF bad # {}
       THEN ControlLightExcept(Error("ValidationError", <<bad>>))
       ELSE IF mgr.err.kind # "NoError"
       THEN ControlLightExcept(mgr.err)
       ELSE ToolReturns(mgr.response)

\* hue_get_light_state, lines 108-142; mgr is how manager.get_light_status ends
HueGetLightState(light_id, mgr) ==
    IF light_id < 1 \/ light_id > 17
    THEN GetLightStateExcept(Error("ValueError",
             <<"Light ID must be an integer between 1 and 17, got ", light_id>>))
    ELSE IF mgr.err.kind # "NoError"
    THEN GetLightStateExcept(mgr.err)
    ELSE ToolReturns(mgr.response)

\* the tool gets as far as the call of the manager
Delegates(name, light_id, p) ==
    IF name = "hue_control_light"
    THEN FieldErrors(light_id, p) = {}
    ELSE 1 <= light_id /\ light_id <= 17

NotCalled == Responds(NoResponse)

ToolIdle ==
    [pc |-> "idle", name |-> "none", light_id |-> NoneInt, action |-> None,
     p |-> NoParams, patched |-> FALSE, invoked |-> FALSE, mgr |-> NotCalled,
     result |-> NoResponse, raised |-> NoError]

ToolCall(name, light_id, action, p, patched) ==
    [ToolIdle EXCEPT !.pc = "manager", !.name = name, !.light_id = light_id,
                     !.action = action, !.p = p, !.patched = patched,
                     !.invoked = Delegates(name, light_id, p)]

\* the rest of the tool once the manager's call is over (or was not made)
ToolEnd(t, mgr) ==
    LET o == IF t.name = "hue_control_light"
             THEN HueControlLight(t.light_id, t.action, t.p, mgr)
             ELSE HueGetLightState(t.light_id, mgr)
    IN [t EXCEPT !.pc = IF o.raised.kind = "NoError" THEN "returned" ELSE "raised",
                 !.mgr = mgr, !.result = o.result, !.raised = o.raised]

\* the arguments the tools are called with: the defaults, the ends of the
\* ranges and the values next to them
ToolParamSets ==
    {DefaultParams, NoParams, RgbParams}
    \cup {[DefaultParams EXCEPT !.brightness = b] : b \in {0, 1, 254, 255}}
    \cup {[DefaultParams EXCEPT !.color_temp = c] : c \in {153, 154, 500, 501}}

\* what a patched LightManager is made to do (tests/test_tools): return a
\* response, or raise
ManagerOutcomes ==
    {Responds(HueResponse(TRUE, <<"Light ", 1, " ", "on", " successfully">>,
                          PayloadData(ObjBody([shape |-> "payload"])), <<1>>))}
    \cup {Raises(Error(k, <<"Test error">>)) : k \in Exceptions}

\* hue_control_light over the LightManager: the request model, then
\* manager.control_light entered up to its GET
CallHueControlLight ==
    /\ tool.pc = "idle"
    /\ Idle
    /\ \E light_id \in LightIds, action \in Actions, p \in ToolParamSets,
          f \in Profiles :
         LET t == ToolCall("hue_control_light", light_id, action, p, FALSE)
         IN IF t.invoked
            THEN /\ tool' = t
                 /\ EnterControlLight(LightControlRequest(light_id, action, p), f)
                 /\ UNCHANGED <<limVars, rq, room_mappings, semaphore, bridgeOn>>
            ELSE /\ tool' = ToolEnd(t, NotCalled)
                 /\ UNCHANGED <<rq, mgrVars, limVars>>

\* hue_get_light_state over the LightManager
CallHueGetLightState ==
    /\ tool.pc = "idle"
    /\ Idle
    /\ \E light_id \in LightIds, f \in Profiles :
         LET t == ToolCall("hue_get_light_state", light_id, None, NoParams, FALSE)
         IN IF t.invoked
            THEN /\ tool' = t
                 /\ EnterGetLightStatus(light_id, f)
                 /\ UNCHANGED <<limVars, rq, room_mappings, semaphore, bridgeOn>>
            ELSE /\ tool' = ToolEnd(t, NotCalled)
                 /\ UNCHANGED <<rq, mgrVars, limVars>>

\* the await of the manager's operation is over: the tool's last lines
ToolReturn ==
    /\ tool.pc = "manager"
    /\ ~tool.patched
    /\ response.returned \/ escaped.kind # "NoError"
    /\ tool' = ToolEnd(tool, IF escaped.kind # "NoError"
                             THEN Raises(escaped)
                             ELSE Responds(response))
    /\ UNCHANGED <<rq, mgrVars, limVars>>

\* a tool called while LightManager is patched, as the tests do
CallPatched ==
    /\ tool.pc = "idle"
    /\ Idle
    /\ \E mgr \in ManagerOutcomes, light_id \in LightIds :
         \/ \E action \in Actions, p \in ToolParamSets :
              LET t == ToolCall("hue_control_light", light_id, action, p, TRUE)
              IN tool' = ToolEnd(t, IF t.invoked THEN mgr ELSE NotCalled)
         \/ LET t == ToolCall("hue_get_light_state", light_id, None, NoParams, TRUE)
            IN tool' = ToolEnd(t, IF t.invoked THEN mgr ELSE NotCalled)
    /\ UNCHANGED <<rq, mgrVars, limVars>>

(***************************************************************************)
(* The specifications.                                                    *)
(***************************************************************************)
ReqInit ==
    /\ \E m \in Methods, e \in Endpoints, n \in 1..DefaultRetries :
         rq = RqStart(m, e, n)
    /\ room_mappings = ROOM_MAPPINGS
    /\ MgrIdle
    /\ LimIdle
    /\ tool = ToolIdle

ReqAttempt ==
    /\ rq.phase = "ready"
    /\ \E resp \in Responses : rq' = RqAfter(rq, resp)
    /\ UNCHANGED <<mgrVars, limVars, tool>>

ReqWake ==
    /\ rq.phase = "sleeping"
    /\ rq' = RqWake(rq)
    /\ UNCHANGED <<mgrVars, limVars, tool>>

\* test_connection, lines 255-261, around the _safe_request of get_config
ReqTestConnection ==
    /\ rq.phase \in {"returned", "raised"}
    /\ rq.method = "GET"
    /\ rq.endpoint = <<"config">>
    /\ rq.retries = DefaultRetries
    /\ rq.connected = "pending"
    /\ rq' = [rq EXCEPT !.connected = TestConnection(rq.result)]
    /\ UNCHANGED <<mgrVars, limVars, tool>>

ReqNext == ReqAttempt \/ ReqWake \/ ReqTestConnection

SpecReq == ReqInit /\ [][ReqNext]_vars

\* every HTTP call ends (httpx.Timeout, lines 110-115) and every sleep ends
SpecReqFair == SpecReq /\ WF_vars(ReqAttempt) /\ WF_vars(ReqWake)



Init ==
    /\ rq = RqIdle
    /\ room_mappings = ROOM_MAPPINGS
    /\ MgrIdle
    /\ LimIdle
    /\ tool = ToolIdle

Next ==
    \/ CallControlLight
    \/ CallControlRoom
    \/ CallGetLightStatus
    \/ CallListAllLights
    \/ CallDiscoverBridge
    \/ \E i \in DOMAIN tasks : TaskEnter(i)
    \/ \E i \in DOMAIN tasks : LightGetDone(i)
    \/ \E i \in DOMAIN tasks : LightPutDone(i)
    \/ RoomAggregate
    \/ GroupPutDone
    \/ QueryDone

Spec == Init /\ [][Next]_vars

RoomInit ==
    /\ rq = RqIdle
    /\ room_mappings = HallMapping
    /\ MgrIdle
    /\ LimIdle
    /\ tool = ToolIdle

RoomNext ==
    \/ CallControlHall
    \/ \E i \in DOMAIN tasks : TaskEnter(i)
    \/ \E i \in DOMAIN tasks : LightGetDone(i)
    \/ \E i \in DOMAIN tasks : LightPutDone(i)
    \/ RoomAggregate

SpecRoom == RoomInit /\ [][RoomNext]_vars

\* every bridge call ends (httpx.Timeout, hue_client.py lines 110-115, and
\* the bounded retries), and the event loop runs every coroutine that can run
RoomProgress ==
    \/ \E i \in DOMAIN tasks : TaskEnter(i)
    \/ \E i \in DOMAIN tasks : LightGetDone(i)
    \/ \E i \in DOMAIN tasks : LightPutDone(i)
    \/ RoomAggregate

RoomFairness == WF_vars(RoomProgress)

SpecRoomFair == SpecRoom /\ RoomFairness

LimInit ==
    /\ rq = RqIdle
    /\ room_mappings = ROOM_MAPPINGS
    /\ MgrIdle
    /\ LimIdle
    /\ tool = ToolIdle

LimNext ==
    \/ \E c \in Callers : LimCall(c)
    \/ \E c \in Callers : LimEnter(c)
    \/ \E c \in Callers : LimWake(c)
    \/ Tick

SpecLimiter == LimInit /\ [][LimNext]_vars

\* the event loop runs every coroutine that can run, and time advances
LimFairness ==
    /\ WF_vars(Tick)
    /\ \A c \in Callers : WF_vars(LimEnter(c)) /\ WF_vars(LimWake(c))

SpecLimiterFair == SpecLimiter /\ LimFairness

ToolInit ==
    /\ rq = RqIdle
    /\ room_mappings = ROOM_MAPPINGS
    /\ MgrIdle
    /\ LimIdle
    /\ tool = ToolIdle

ToolNext ==
    \/ CallHueControlLight
    \/ CallHueGetLightState
    \/ CallPatched
    \/ \E i \in DOMAIN tasks : LightGetDone(i)
    \/ \E i \in DOMAIN tasks : LightPutDone(i)
    \/ QueryDone
    \/ ToolReturn

SpecTool == ToolInit /\ [][ToolNext]_vars

(***************************************************************************)
(* Claims about LightManager (checked under Spec and SpecRoom).           *)
(***************************************************************************)
NamedRoomRequest ==
    /\ request.op = "control_room"
    /\ request.room # "all"
    /\ HasKey(room_mappings, request.room)

\* a failure result carrying the message and the kind name of err
IsFailureOf(res, err) ==
    /\ res.returned
    /\ ~res.success
    /\ res.message = err.msg
    /\ res.data.shape = "error"
    /\ res.data.error_type = err.kind

\* C1: every public LightManager operation returns a result object and never
\* raises: no exception leaves control_light, control_room, get_light_status,
\* list_all_lights or discover_bridge (nor a control_light run by a room
\* fan-out), and an exception raised inside an operation's try block gives
\* that operation the result success=false, the exception's message and
\* data.error_type equal to its class name.
C1_AlwaysAResult ==
    /\ escaped.kind = "NoError"
    /\ thrown.kind # "NoError" => IsFailureOf(response, thrown)
    /\ \A i \in DOMAIN tasks :
         /\ tasks[i].raised.kind = "NoError"
         /\ tasks[i].thrown.kind # "NoError" =>
              /\ tasks[i].pc = "done"
              /\ IsFailureOf(tasks[i].result, tasks[i].thrown)
         /\ (tasks[i].pc = "done" /\ ~NamedRoomRequest) => response = tasks[i].result
    /\ (~Idle /\ ~response.returned) =>
         \/ \E i \in DOMAIN tasks : tasks[i].pc # "done"
         \/ NamedRoomRequest

\* a light of a named room timed out: its own control_light turned the
\* timeout into that light's failure result, and the room's aggregate, which
\* carries it in data.details, was returned
C1_Witness ==
    /\ NamedRoomRequest
    /\ response.returned
    /\ ~response.success
    /\ response.data.shape = "room"
    /\ \E i \in DOMAIN tasks :
         /\ tasks[i].thrown.kind = "HueTimeoutError"
         /\ IsFailureOf(tasks[i].result, tasks[i].thrown)
         /\ response.data.details[i].result = tasks[i].result

\* every error raised while the operation ran
ErrorsRaised ==
    {e \in {thrown} \cup {tasks[i].thrown : i \in DOMAIN tasks} : e.kind # "NoError"}

\* C1 as worded: whatever failed, a validation or any bridge call, the result
\* the operation returns has success=false, that error's message and
\* data.error_type equal to that error's kind name.
C1_EveryFailureInTheResult ==
    response.returned => \A e \in ErrorsRaised : IsFailureOf(response, e)

\* C2: for a light id outside 1..17, control_light and get_light_status return
\* a failure of kind HueValidationError and issue no bridge call: no client,
\* no GET, no PUT, no rate-limiter acquire.
C2_BadLightIdNoBridgeCall ==
    (/\ request.op \in {"control_light", "get_light_status"}
     /\ (request.light_id < 1 \/ request.light_id > 17))
    => /\ response.returned
       /\ ~response.success
       /\ response.data.shape = "error"
       /\ response.data.error_type = "HueValidationError"
       /\ calls = NoCalls
       /\ Len(tasks) = 0

C2_Witness ==
    /\ request.op = "control_light"
    /\ request.light_id = 0
    /\ request.action = "on"
    /\ response.returned
    /\ response.data.error_type = "HueValidationError"
    /\ calls.get = 0

\* C3: for a room name that is no key of the room mapping, control_room
\* returns a failure of kind HueValidationError whose message lists the known
\* room names, and issues no bridge call.
C3_UnknownRoomRejected ==
    (request.op = "control_room" /\ ~HasKey(room_mappings, request.room))
    => /\ response.returned
       /\ ~response.success
       /\ response.data.shape = "error"
       /\ response.data.error_type = "HueValidationError"
       /\ response.message =
            <<"Unknown room '", request.room, "'. Available rooms: ",
              <<"kitchen", "bedroom", "office", "basement", "living_room", "all">> >>
       /\ calls = NoCalls
       /\ Len(tasks) = 0

C3_Witness ==
    /\ request.op = "control_room"
    /\ request.room = "garage"
    /\ response.returned
    /\ ~response.success
    /\ calls = NoCalls

\* C4: a control request (single light, named room, room "all") whose action
\* is not on, off or toggle ends in a failure and no bridge write (PUT to a
\* light state or to a group action) is issued for it.
C4_InvalidActionNoWrite ==
    (/\ request.op \in {"control_light", "control_room"}
     /\ request.action \notin {"on", "off", "toggle"})
    => /\ calls.put = 0
       /\ calls.group_put = 0
       /\ response.returned => ~response.success

\* C5: in control_light with action toggle the state sent by the PUT has on
\* equal to the negation of the state.on the operation's GET read: read true
\* sends exactly {on: false}; read false or absent sends on: true together
\* with the request's brightness and colour values.
C5_ToggleNegatesReadState ==
    \A i \in DOMAIN tasks :
        (/\ tasks[i].kind = "light"
         /\ request.action = "toggle"
         /\ tasks[i].read_on # "unread")
        => LET t == tasks[i]
               p == request.p
           IN /\ t.pc \in {"put", "done"}
              /\ t.read_on = "true" => (t.sent.keys = {"on"} /\ t.sent.on = FALSE)
              /\ (t.pc = "put" /\ t.read_on = "true") => bridgeOn[t.light_id]
              /\ (t.pc = "put" /\ t.read_on = "false") => ~bridgeOn[t.light_id]
              /\ t.read_on \in {"false", "absent"} =>
                   /\ "on" \in t.sent.keys
                   /\ t.sent.on = TRUE
                   /\ ("bri" \in t.sent.keys) = (p.brightness # NoneInt)
                   /\ t.sent.bri = p.brightness
                   /\ "xy" \in t.sent.keys =>
                        /\ p.red # NoneInt /\ p.green # NoneInt /\ p.blue # NoneInt
                        /\ t.sent.xy = RgbToXy(p.red, p.green, p.blue)
                   /\ "hue" \in t.sent.keys =>
                        /\ "sat" \in t.sent.keys
                        /\ p.hue # NoneInt /\ t.sent.hue = p.hue
                        /\ p.saturation # NoneInt /\ t.sent.sat = p.saturation
                   /\ "ct" \in t.sent.keys =>
                        (p.color_temp # NoneInt /\ t.sent.ct = p.color_temp)

\* a toggle of a light that was off, sent as on with the request's colour
C5_Witness ==
    /\ request.op = "control_light"
    /\ request.action = "toggle"
    /\ Len(tasks) = 1
    /\ tasks[1].pc = "done"
    /\ tasks[1].read_on = "false"
    /\ tasks[1].sent.on = TRUE
    /\ "xy" \in tasks[1].sent.keys
    /\ response.success

\* the lights of the fan-out whose control_light failed
FailedTasks == {i \in DOMAIN tasks : ~tasks[i].result.success}

\* C6: for a named room with n lights of which f per-light operations fail,
\* control_room returns success = (f = 0), the message "Controlled (n-f)/n
\* lights in <room>", data.successful_operations = n-f,
\* data.failed_operations = f and the per-light results, in order, in
\* data.details.
C6_RoomAggregate ==
    (NamedRoomRequest /\ response.returned)
    => LET n == Len(Lookup(room_mappings, request.room))
           f == Cardinality(FailedTasks)
       IN /\ Len(tasks) = n
          /\ response.success = (f = 0)
          /\ response.message =
               <<"Controlled ", n - f, "/", n, " lights in ", request.room>>
          /\ response.data.shape = "room"
          /\ response.data.successful_operations = n - f
          /\ response.data.failed_operations = f
          /\ Len(response.data.details) = n
          /\ \A i \in 1..n :
               /\ response.data.details[i].light_id = tasks[i].light_id
               /\ response.data.details[i].has_result
               /\ response.data.details[i].result = tasks[i].result
               /\ response.data.details[i].success = tasks[i].result.success

\* 3 of the 5 basement lights failed: "2/5 lights", failed_operations = 3
C6_Witness ==
    /\ NamedRoomRequest
    /\ request.room = "basement"
    /\ response.returned
    /\ ~response.success
    /\ Cardinality(FailedTasks) = 3
    /\ response.data.failed_operations = 3
    /\ response.data.successful_operations = 2

\* the tasks holding a slot of the fan-out's semaphore
InFlight == {i \in DOMAIN tasks : tasks[i].guarded /\ tasks[i].pc \in {"get", "put"}}

\* C7: in a room fan-out every light id of the room gets exactly one
\* control_light operation, none is cancelled or skipped because a sibling
\* failed, and the aggregate is produced only after all of them finished with
\* a result of their own.
C7_FanOutIsolation ==
    NamedRoomRequest
    => LET light_ids == Lookup(room_mappings, request.room)
           entered == {i \in DOMAIN tasks : tasks[i].pc # "wait"}
       IN /\ Len(tasks) = Len(light_ids)
          /\ \A i \in DOMAIN tasks :
               /\ tasks[i].light_id = light_ids[i]
               /\ tasks[i].pc \in {"wait", "get", "put", "done"}
               /\ tasks[i].pc = "done" => tasks[i].result.returned
               /\ tasks[i].pc # "done" => ~tasks[i].result.returned
          /\ calls.clients = Cardinality(entered)
          /\ calls.get = Cardinality(entered)
          /\ response.returned =>
               /\ \A i \in DOMAIN tasks : tasks[i].pc = "done"
               /\ calls.clients = Len(light_ids)

\* the aggregate of a fan-out in which the first light failed and the last
\* one, which had to wait for a slot, succeeded
C7_Witness ==
    /\ NamedRoomRequest
    /\ request.room = "hall"
    /\ response.returned
    /\ ~tasks[1].result.success
    /\ tasks[Len(tasks)].result.success
    /\ Len(tasks) > SemaphoreLimit

\* C8: during a room fan-out at most 5 per-light operations are in flight,
\* whatever the room size: the semaphore's value is 5 minus their number, and
\* a task that has not entered waits while none is free.
C8_AtMostFiveInFlight ==
    NamedRoomRequest
    => /\ Cardinality(InFlight) <= 5
       /\ semaphore = 5 - Cardinality(InFlight)
       /\ semaphore >= 0

\* five operations in flight and another one waiting for a slot
C8_Witness ==
    /\ NamedRoomRequest
    /\ Cardinality(InFlight) = 5
    /\ semaphore = 0
    /\ \E i \in DOMAIN tasks : tasks[i].pc = "wait"

\* the light tasks whose state was built as an "on" state
BuiltOn == {i \in DOMAIN tasks : /\ tasks[i].kind = "light"
                                 /\ "on" \in tasks[i].sent.keys
                                 /\ tasks[i].sent.on = TRUE}

\* the light the bridge describes to the GET of light l
InfoOf(l) == LightObj(DeviceType(l), TRUE, bridgeOn[l], DeviceControl(l))

ColourKeysOf(state) == state.keys \cap {"xy", "hue", "sat", "ct"}

RgbGiven(p) == p.red # NoneInt /\ p.green # NoneInt /\ p.blue # NoneInt

HueSatGiven(p) == p.hue # NoneInt /\ p.saturation # NoneInt

\* C17: a state built for action "on" contains at most one colour
\* representation among {xy}, {hue, sat}, {ct}; for a colour-capable light the
\* choice follows RGB (all three channels) > hue+saturation (both) > colour
\* temperature: RGB gives xy and no ct/hue/sat, hue+saturation without a
\* complete RGB gives hue and sat and no xy/ct.
C17_OneColourRepresentation ==
    \A i \in BuiltOn :
        LET K == ColourKeysOf(tasks[i].sent)
            p == request.p
        IN /\ K \in {{}, {"xy"}, {"hue", "sat"}, {"ct"}}
           /\ SupportsColor(InfoOf(tasks[i].light_id)) =>
                /\ RgbGiven(p) =>
                     (K = {"xy"} /\ tasks[i].sent.xy = RgbToXy(p.red, p.green, p.blue))
                /\ (~RgbGiven(p) /\ HueSatGiven(p)) =>
                     /\ K = {"hue", "sat"}
                     /\ tasks[i].sent.hue = p.hue
                     /\ tasks[i].sent.sat = p.saturation
                /\ (~RgbGiven(p) /\ ~HueSatGiven(p)) => K \subseteq {"ct"}

\* an Extended color light turned on with RGB and hue+saturation both
\* supplied: xy only
C17_Witness ==
    /\ request.op = "control_light"
    /\ request.action = "on"
    /\ request.light_id = 1
    /\ request.p = RgbAndHueSatParams
    /\ Len(tasks) = 1
    /\ tasks[1].pc = "done"
    /\ tasks[1].sent.keys = {"on", "bri", "xy"}
    /\ response.success

\* C18: colour keys are set only when the light supports them: for a light
\* without colour capability the state has no xy, hue or sat whatever the
\* request supplies, and has ct exactly when a colour temperature is given
\* and the light supports colour temperature; for a light with neither
\* capability it has no colour key at all.
C18_ColourNeedsCapability ==
    \A i \in BuiltOn :
        LET K == ColourKeysOf(tasks[i].sent)
            info == InfoOf(tasks[i].light_id)
            p == request.p
        IN /\ ~SupportsColor(info) =>
                /\ K \cap {"xy", "hue", "sat"} = {}
                /\ ("ct" \in K) = (p.color_temp # NoneInt /\ SupportsColorTemp(info))
                /\ "ct" \in K => tasks[i].sent.ct = p.color_temp
           /\ (~SupportsColor(info) /\ ~SupportsColorTemp(info)) => K = {}
           /\ (DeviceType(tasks[i].light_id) = <<"Dimmable", "light">>
               /\ DeviceControl(tasks[i].light_id) = {}) => K = {}

\* a Dimmable light turned on with RGB supplied: on and bri only
C18_Witness ==
    /\ request.op = "control_light"
    /\ request.action = "on"
    /\ request.light_id = 10
    /\ request.p = RgbParams
    /\ Len(tasks) = 1
    /\ tasks[1].pc = "done"
    /\ tasks[1].sent.keys = {"on", "bri"}
    /\ response.success

\* C19: for action "off", requested directly or resolved from a toggle of a
\* light that is on, the state sent is exactly {on: false}, whatever
\* brightness and colour parameters the request carries.
C19_OffIsBare ==
    \A i \in DOMAIN tasks :
        (/\ tasks[i].pc \in {"put", "done"}
         /\ tasks[i].sent.keys # {}
         /\ \/ request.action = "off"
            \/ (tasks[i].kind = "light" /\ request.action = "toggle"
                /\ tasks[i].read_on = "true"))
        => /\ tasks[i].sent.keys = {"on"}
           /\ tasks[i].sent.on = FALSE

\* a light that is on, toggled with a colour in the request: {on: false}
C19_Witness ==
    /\ request.op = "control_light"
    /\ request.action = "toggle"
    /\ request.p = RgbParams
    /\ Len(tasks) = 1
    /\ tasks[1].pc = "done"
    /\ tasks[1].read_on = "true"
    /\ tasks[1].sent.keys = {"on"}
    /\ tasks[1].sent.on = FALSE
    /\ response.success

AllRoomRequest == request.op = "control_room" /\ request.room = "all"

C21_GroupActionBuilt ==
    AllRoomRequest
    => LET sent == tasks[1].sent
           p == request.p
           K == ColourKeysOf(sent)
       IN /\ calls.get = 0
          /\ request.action = "toggle" => (sent.keys = {"on"} /\ sent.on = FALSE)
          /\ request.action = "on" =>
               /\ "on" \in sent.keys
               /\ sent.on = TRUE
               /\ ("bri" \in sent.keys) = (p.brightness # NoneInt)
               /\ sent.bri = p.brightness
               /\ RgbGiven(p) =>
                    (K = {"xy"} /\ sent.xy = RgbToXy(p.red, p.green, p.blue))
               /\ (~RgbGiven(p) /\ HueSatGiven(p)) =>
                    (K = {"hue", "sat"} /\ sent.hue = p.hue /\ sent.sat = p.saturation)
               /\ (~RgbGiven(p) /\ ~HueSatGiven(p) /\ p.color_temp # NoneInt) =>
                    (K = {"ct"} /\ sent.ct = p.color_temp)
               /\ (~RgbGiven(p) /\ ~HueSatGiven(p) /\ p.color_temp = NoneInt) => K = {}

\* all lights toggled while some are on and some are off: {on: false} was
\* written and every light is off
C21_Witness ==
    /\ AllRoomRequest
    /\ request.action = "toggle"
    /\ response.returned
    /\ response.success
    /\ tasks[1].sent.keys = {"on"}
    /\ \A l \in Lights : ~bridgeOn[l]

\* the exceptions the client's control_light can raise
ClientErrors == HueErrors \cup {"HTTPStatusError"}

\* control_light is over and the client's control_light returned a value
PutReturned ==
    /\ request.op = "control_light"
    /\ response.returned
    /\ calls.put = 1
    /\ thrown.kind \notin ClientErrors

\* C24: whenever the client's control_light returns without error for a valid
\* single-light request, whether it returns the success element or the list
\* unmodified, LightManager.control_light returns success=true, the message
\* "Light <id> <action> successfully", the payload as data and
\* lights_affected = [id].
C24_PutReturnedIsSuccess ==
    PutReturned
    => /\ response.success
       /\ response.message =
            <<"Light ", request.light_id, " ", request.action, " successfully">>
       /\ response.data.shape = "payload"
       /\ response.lights_affected = <<request.light_id>>

(***************************************************************************)
(* Claims about _safe_request (checked under SpecReq).                    *)
(***************************************************************************)
Is429(resp) == resp.kind = "http" /\ resp.status = 429

\* a 200 response whose body is not a bridge error envelope
IsGood200(resp) ==
    /\ resp.kind = "http"
    /\ resp.status = 200
    /\ ~(resp.body.list /\ Len(resp.body.items) > 0
         /\ "error" \in resp.body.items[1].keys)

\* the history is k responses 429 followed by one good 200
RateLimitedThenOk(hist) ==
    /\ Len(hist) >= 1
    /\ IsGood200(hist[Len(hist)])
    /\ \A i \in 1..(Len(hist) - 1) : Is429(hist[i])

\* what the caller gets for a good 200 body: the first element of a PUT's list
\* when it has a success entry, the parsed body otherwise
PayloadOf(method, body) ==
    IF Upper(method) = "PUT" /\ body.list /\ Len(body.items) > 0
       /\ "success" \in body.items[1].keys
    THEN ObjBody([shape |-> "item", item |-> body.items[1]])
    ELSE body

\* C9: k responses 429 (k < retries) followed by a 200 response yield the 200
\* payload as the result, without raising, after exactly k+1 HTTP calls, each
\* 429 having been followed by its backoff sleep of 1.0 * 2^attempt seconds; a
\* 429 on a non-final attempt never ends the call.
C9_RateLimitRetry ==
    /\ RateLimitedThenOk(rq.hist) =>
         /\ rq.phase = "returned"
         /\ rq.result.t = "return"
         /\ rq.result.val = PayloadOf(rq.method, rq.hist[Len(rq.hist)].body)
         /\ rq.http = Len(rq.hist)
         /\ rq.sleeps = [i \in 1..(Len(rq.hist) - 1) |-> 1000 * Pow2(i - 1)]
    /\ (Len(rq.hist) >= 1 /\ Len(rq.hist) < rq.retries /\ Is429(rq.hist[Len(rq.hist)]))
         => rq.phase \in {"sleeping", "ready"}

\* 429 then 200: the payload after exactly 2 HTTP calls
C9_Witness ==
    /\ Len(rq.hist) = 2
    /\ Is429(rq.hist[1])
    /\ rq.hist[2] = Http(200, ObjBody([shape |-> "payload"]))
    /\ rq.method = "GET"
    /\ rq.phase = "returned"
    /\ rq.http = 2

Is404(resp) == resp.kind = "http" /\ resp.status = 404

Is401(resp) == resp.kind = "http" /\ resp.status = 401

\* C10: a 404 response fails immediately with HueValidationError naming the
\* endpoint and a 401 response with HueConnectionError; one HTTP call was made
\* per attempt up to it and none follows it, on whatever attempt it occurs.
C10_NotFoundAndAuthFailFast ==
    \A i \in 1..Len(rq.hist) :
        /\ Is404(rq.hist[i]) =>
             /\ i = Len(rq.hist)
             /\ rq.phase = "raised"
             /\ rq.result.t = "raise"
             /\ rq.result.err.kind = "HueValidationError"
             /\ rq.result.err.msg = <<"Resource not found: ", rq.endpoint>>
             /\ rq.http = i
             /\ rq.attempt = i - 1
        /\ Is401(rq.hist[i]) =>
             /\ i = Len(rq.hist)
             /\ rq.phase = "raised"
             /\ rq.result.t = "raise"
             /\ rq.result.err.kind = "HueConnectionError"
             /\ rq.result.err.msg = <<"Invalid username/authentication">>
             /\ rq.http = i
             /\ rq.attempt = i - 1

\* a 404 on the last attempt after two retried faults, and it is final
C10_Witness ==
    /\ Len(rq.hist) = 3
    /\ rq.hist[1] = Timeout
    /\ Is429(rq.hist[2])
    /\ Is404(rq.hist[3])
    /\ rq.phase = "raised"
    /\ rq.http = 3

IsTimeout(resp) == resp.kind = "timeout"

IsNetErr(resp) == resp.kind = "neterr"

IsFault(resp) == IsTimeout(resp) \/ IsNetErr(resp)

\* C11: when every attempt times out the call fails with HueTimeoutError after
\* exactly retries HTTP calls, when every attempt fails with another
\* transport error it fails with HueConnectionError after exactly retries
\* HTTP calls, and no sooner; a failed attempt a (0-based) that is not the
\* last is followed by a sleep of 0.5 * 2^a seconds.
C11_FaultsExhaustRetries ==
    LET n == Len(rq.hist)
    IN /\ (n >= 1 /\ \A i \in 1..n : IsTimeout(rq.hist[i])) =>
            /\ rq.http = n
            /\ n < rq.retries => rq.phase \in {"sleeping", "ready"}
            /\ n = rq.retries =>
                 /\ rq.phase = "raised"
                 /\ rq.result.err.kind = "HueTimeoutError"
                 /\ rq.http = rq.retries
       /\ (n >= 1 /\ \A i \in 1..n : IsNetErr(rq.hist[i])) =>
            /\ rq.http = n
            /\ n < rq.retries => rq.phase \in {"sleeping", "ready"}
            /\ n = rq.retries =>
                 /\ rq.phase = "raised"
                 /\ rq.result.err.kind = "HueConnectionError"
                 /\ rq.http = rq.retries
       /\ \A i \in 1..n :
            (IsFault(rq.hist[i]) /\ i < rq.retries) =>
                /\ Len(rq.sleeps) >= i
                /\ rq.sleeps[i] = 500 * Pow2(i - 1)

\* three timeouts: HueTimeoutError after 3 calls and sleeps of 0.5 s and 1 s
C11_Witness ==
    /\ rq.retries = 3
    /\ rq.hist = <<Timeout, Timeout, Timeout>>
    /\ rq.phase = "raised"
    /\ rq.result.err.kind = "HueTimeoutError"
    /\ rq.http = 3
    /\ rq.sleeps = <<500, 1000>>

IsServerError(resp) ==
    /\ resp.kind = "http"
    /\ resp.status \notin 200..299
    /\ resp.status \notin {429, 404, 401}

\* C12: a response with a non-2xx status other than 429, 404 and 401 is
\* treated like a transport fault: on an attempt that is not the last the call
\* sleeps 0.5 * 2^attempt seconds and tries again, and when every one of the
\* retries attempts gets such a status the call fails with
\* HueConnectionError.
C12_ServerErrorRetried ==
    LET n == Len(rq.hist)
    IN (n >= 1 /\ \A i \in 1..n : IsServerError(rq.hist[i])) =>
          /\ n < rq.retries =>
               /\ rq.phase \in {"sleeping", "ready"}
               /\ rq.sleeps = [i \in 1..n |-> 500 * Pow2(i - 1)]
          /\ n = rq.retries =>
               /\ rq.phase = "raised"
               /\ rq.result.err.kind = "HueConnectionError"

\* a 2xx response whose body is a list whose first element has an error entry
IsErrorEnvelope(resp) ==
    /\ resp.kind = "http"
    /\ resp.status \in 200..299
    /\ resp.body.list
    /\ Len(resp.body.items) > 0
    /\ "error" \in resp.body.items[1].keys

\* C13: for GET and PUT alike, a 2xx response whose body is a list whose first
\* element has an error entry fails with HueError carrying the bridge's
\* description ("Unknown error" when the entry has none); one HTTP call was
\* made per attempt up to it and no attempt follows it.
C13_BridgeErrorNotRetried ==
    \A i \in 1..Len(rq.hist) :
        IsErrorEnvelope(rq.hist[i]) =>
            /\ i = Len(rq.hist)
            /\ rq.phase = "raised"
            /\ rq.result.t = "raise"
            /\ rq.result.err.kind = "HueError"
            /\ rq.result.err.msg =
                 <<"Hue API error: ",
                   IF rq.hist[i].body.items[1].desc = None
                   THEN "Unknown error" ELSE rq.hist[i].body.items[1].desc>>
            /\ rq.http = i
            /\ rq.attempt = i - 1

\* a GET answered 200 with [{"error": {...}}] on the first of three attempts
C13_Witness ==
    /\ rq.method = "GET"
    /\ rq.retries = 3
    /\ rq.hist = <<Http(200, ListBody(<<ErrorItem>>))>>
    /\ rq.phase = "raised"
    /\ rq.result.err.msg = <<"Hue API error: ", "resource not available">>
    /\ rq.http = 1

(***************************************************************************)
(* Claims about HueRateLimiter (checked under SpecLimiter).               *)
(***************************************************************************)
GroupGrants == {i \in DOMAIN grants : grants[i].kind = "group"}

\* C14: two control_group calls through the same client have their PUTs at
\* least group_rate_limit apart, the second call waiting for the remainder of
\* the interval; the first group acquire on a fresh limiter is granted at the
\* time it is called, without sleeping.
C14_GroupInterval ==
    \A j \in GroupGrants :
        LET earlier == {i \in GroupGrants : i < j /\ grants[i].lim = grants[j].lim}
        IN /\ \A i \in earlier : grants[j].at - grants[i].at >= group_rate_limit
           /\ earlier = {} => (~grants[j].slept /\ grants[j].at = grants[j].start)

\* two control_group calls back to back on the shared client: the second one
\* called when the first returned, and granted one interval later
C14_Witness ==
    /\ Len(grants) >= 2
    /\ grants[1].kind = "group" /\ grants[2].kind = "group"
    /\ grants[1].lim = 1 /\ grants[2].lim = 1
    /\ ~grants[1].slept
    /\ grants[2].start = grants[1].at
    /\ grants[2].slept
    /\ grants[2].at = grants[1].at + group_rate_limit

\* C15: the rate-limiter state is one process-wide instance: every slot a
\* LightManager operation takes is drawn from the same limiter as every other
\* one, and two group operations of LightManager (room "all") are at least
\* group_rate_limit apart.
C15_OneSharedLimiter ==
    /\ \A i, j \in DOMAIN grants :
         (grants[i].mgr /\ grants[j].mgr) => grants[i].lim = grants[j].lim
    /\ \A i, j \in GroupGrants :
         (i < j /\ grants[i].mgr /\ grants[j].mgr)
         => grants[j].at - grants[i].at >= group_rate_limit

\* C16: acquire_light_token and acquire_group_token never fail and, with
\* time advancing and the event loop running every coroutine that can run,
\* every call returns: a caller that is waiting for a lock or sleeping inside
\* one is eventually back from its acquire, whatever the other callers do.
C16_AcquireReturns ==
    \A c \in Callers : (callers[c].pc # "idle") ~> (callers[c].pc = "idle")

\* the bucket is empty: one caller sleeps inside the light lock of the shared
\* limiter while another one waits for that lock
C16_Witness ==
    \E c, d \in Callers :
        /\ callers[c].pc = "sleep" /\ callers[c].kind = "light" /\ callers[c].lim = 1
        /\ callers[d].pc = "lock" /\ callers[d].kind = "light" /\ callers[d].lim = 1
        /\ limiters[1].light_lock = c
        /\ limiters[1].light_tokens = 0
        /\ limiters[1].light_waiters = <<d>>

\* test_connection has returned or raised
Tested == rq.connected # "pending"

\* C22: test_connection returns true exactly when get_config succeeds, that is
\* when the last response is a 2xx without an error entry, and returns false,
\* raising nothing, for every failure of get_config: timeouts, transport
\* errors, 401, 404, any other status, a bridge error envelope, exhausted
\* retries.
C22_TestConnection ==
    Tested =>
        /\ rq.connected \in {"true", "false"}
        /\ (rq.connected = "true") = (rq.phase = "returned")
        /\ (rq.connected = "true") =
             (Len(rq.hist) >= 1 /\ IsGood200(rq.hist[Len(rq.hist)]))
        /\ (rq.connected = "false") = (rq.phase = "raised")

\* the bridge answers 500: the HTTPStatusError is swallowed, the answer is False
C22_Witness ==
    /\ Tested
    /\ rq.hist = <<Http(500, NoBody)>>
    /\ rq.result.err.kind = "HTTPStatusError"
    /\ rq.connected = "false"

RqFinished == rq.phase \in {"returned", "raised"}

\* C23: no bridge request blocks for ever: whatever the responses and faults,
\* _safe_request makes at most retries HTTP calls and at most retries backoff
\* sleeps, and it ends, returning or raising.
C23_RequestTerminates ==
    /\ [](rq.http <= rq.retries /\ Len(rq.sleeps) <= rq.retries)
    /\ <>RqFinished

\* three 429 answers: three calls, three sleeps, and the call has ended
C23_Witness ==
    /\ rq.retries = 3
    /\ Len(rq.hist) = 3
    /\ \A i \in 1..3 : Is429(rq.hist[i])
    /\ rq.http = 3
    /\ Len(rq.sleeps) = 3
    /\ RqFinished

(***************************************************************************)
(* Claims about HueRateLimiter's sections (checked under SpecLimiter).    *)
(***************************************************************************)
\* the step returns a caller from acquire_light_token on limiter i
LightGrantOn(i) ==
    /\ Len(grants') = Len(grants) + 1
    /\ grants'[Len(grants')].kind = "light"
    /\ grants'[Len(grants')].lim = i

\* limiter i before the step; one constructed in the step starts full
Before(i) == IF i \in DOMAIN limiters THEN limiters[i] ELSE HueRateLimiter(now)

\* C28: on every rate limiter the token count stays within 0 and the
\* capacity, whatever the calls of acquire_light_token and their
\* interleaving, and each completed acquire takes exactly one token from the
\* refilled bucket; no other step takes a token.
C28_TokensWithinCapacity ==
    /\ [](\A i \in DOMAIN limiters :
            /\ limiters[i].light_tokens >= 0
            /\ limiters[i].light_tokens <= limiters[i].light_max_tokens
            /\ limiters[i].light_max_tokens = light_rate_limit)
    /\ [][\A i \in DOMAIN limiters' :
            LET refilled == Min(Before(i).light_max_tokens,
                                Before(i).light_tokens
                                  + ((now - Before(i).light_last_refill)
                                       * Before(i).light_refill_rate) \div TicksPerSecond)
            IN IF LightGrantOn(i)
               THEN /\ refilled >= 1
                    /\ limiters'[i].light_tokens = refilled - 1
               ELSE limiters'[i].light_tokens \in {Before(i).light_tokens, refilled}]_vars

\* a caller found the shared bucket empty, slept, and took the one token the
\* refill brought
C28_Witness ==
    \E g \in DOMAIN grants :
        /\ grants[g].kind = "light"
        /\ grants[g].lim = 1
        /\ grants[g].slept
        /\ g = Len(grants)
        /\ limiters[1].light_tokens = 0
        /\ limiters[1].light_last_refill = grants[g].at

\* the callers inside a section of limiter i: past "async with", not yet out
Inside(kind, i) ==
    {c \in Callers : callers[c].pc = "sleep" /\ callers[c].kind = kind
                     /\ callers[c].lim = i}

\* the callers suspended in "async with" of a section of limiter i
Waiting(kind, i) ==
    {c \in Callers : callers[c].pc = "lock" /\ callers[c].kind = kind
                     /\ callers[c].lim = i}

Range(seq) == {seq[n] : n \in DOMAIN seq}

\* the step changes a counter of limiter i that the section of kind guards
Touches(kind, i) ==
    IF kind = "light"
    THEN \/ limiters'[i].light_tokens # limiters[i].light_tokens
         \/ limiters'[i].light_last_refill # limiters[i].light_last_refill
    ELSE limiters'[i].group_last_call # limiters[i].group_last_call

\* C29: at any moment at most one caller is inside the light section of a
\* limiter and at most one inside its group section; the lock is that
\* caller's while it sleeps; the other callers of the section, any number of
\* them, are suspended waiting for the lock; and the counters a section
\* guards are changed only by the caller inside it.
C29_SectionsExclusive ==
    /\ [](\A i \in DOMAIN limiters :
            /\ Cardinality(Inside("light", i)) <= 1
            /\ Cardinality(Inside("group", i)) <= 1
            /\ Inside("light", i) =
                 IF limiters[i].light_lock = 0 THEN {} ELSE {limiters[i].light_lock}
            /\ Inside("group", i) =
                 IF limiters[i].group_lock = 0 THEN {} ELSE {limiters[i].group_lock}
            /\ Waiting("light", i) = Range(limiters[i].light_waiters)
            /\ Waiting("group", i) = Range(limiters[i].group_waiters))
    /\ [][\A i \in DOMAIN limiters :
            /\ (Touches("light", i) /\ limiters[i].light_lock # 0) =>
                 \A d \in Callers \ {limiters[i].light_lock} : callers'[d] = callers[d]
            /\ (Touches("group", i) /\ limiters[i].group_lock # 0) =>
                 \A d \in Callers \ {limiters[i].group_lock} : callers'[d] = callers[d]]_vars

\* one caller sleeps inside the group section of the shared limiter, holding
\* its lock, while two others are suspended waiting for that lock
C29_Witness ==
    \E c \in Callers :
        /\ Inside("group", 1) = {c}
        /\ limiters[1].group_lock = c
        /\ Cardinality(Waiting("group", 1)) = 2

\* the callers of a kind that are inside the acquire: no slot yet
Acquirers(kind) == {c \in Callers : callers[c].pc # "idle" /\ callers[c].kind = kind}

LightGrants == {i \in DOMAIN grants : grants[i].kind = "light"}

\* C30: the client's control_light sends its PUT only once its
\* acquire_light_token has returned, and control_group only once its
\* acquire_group_token has returned: the PUTs sent are those of the calls
\* granted a slot, and a call still inside its acquire has sent none.
C30_PutAfterAcquire ==
    /\ calls.put = Cardinality(LightGrants)
    /\ calls.group_put = Cardinality(GroupGrants)
    /\ calls.light_acquire = calls.put + Cardinality(Acquirers("light"))
    /\ calls.group_acquire = calls.group_put + Cardinality(Acquirers("group"))

\* a control_light caller sleeps in its acquire on the empty shared bucket:
\* the acquires called outnumber the PUTs sent by that one call
C30_Witness ==
    /\ \E c \in Callers : Inside("light", 1) = {c}
    /\ Acquirers("light") = Inside("light", 1)
    /\ calls.put >= light_rate_limit
    /\ calls.light_acquire = calls.put + 1

(***************************************************************************)
(* Claims about the MCP tools (checked under SpecTool).                   *)
(***************************************************************************)
\* a tool call over the LightManager itself has returned
ToolDone(name) == tool.name = name /\ ~tool.patched /\ tool.pc = "returned"

\* C25: hue_control_light called with a valid light id and an action outside
\* {on, off, toggle} returns success=false with data.error_type
\* "HueValidationError", however the bridge answers, or fails to answer, the
\* read of the light.
C25_InvalidActionIsValidationError ==
    (ToolDone("hue_control_light") /\ tool.invoked
        /\ tool.action \notin {"on", "off", "toggle"})
    => /\ ~tool.result.success
       /\ tool.result.data.error_type = "HueValidationError"

\* the manager's operation, patched, raised into the tool
ManagerRaised == tool.patched /\ tool.invoked /\ tool.mgr.err.kind # "NoError"

\* C26: hue_control_light and hue_get_light_state never raise.  A HueError
\* raised by the manager becomes success=false with the error's message and
\* error_type its class name.  Of the other exceptions, hue_control_light
\* turns a pydantic ValidationError into "Invalid parameters: ..." with
\* data.validation_errors, hue_get_light_state turns a ValueError (pydantic's
\* ValidationError is one) into the error's message with error_type
\* "ValidationError", and every remaining one becomes "An unexpected error
\* occurred" with error_type "UnexpectedError".
C26_ToolsNeverRaise ==
    /\ tool.pc # "raised"
    /\ tool.raised.kind = "NoError"
    /\ ManagerRaised =>
         LET err == tool.mgr.err
             res == tool.result
         IN /\ tool.pc = "returned"
            /\ res.returned
            /\ ~res.success
            /\ err.kind \in HueErrors =>
                 (res.message = err.msg /\ res.data.error_type = err.kind)
            /\ (tool.name = "hue_control_light" /\ err.kind = "ValidationError") =>
                 (res.data.shape = "validation_errors"
                    /\ res.message = <<"Invalid parameters: ">> \o err.msg)
            /\ (tool.name = "hue_get_light_state" /\ err.kind \in ValueErrors) =>
                 (res.message = err.msg /\ res.data.error_type = "ValidationError")
            /\ (err.kind \notin HueErrors
                  /\ ~(tool.name = "hue_control_light" /\ err.kind = "ValidationError")
                  /\ ~(tool.name = "hue_get_light_state" /\ err.kind \in ValueErrors)) =>
                 res = Unexpected

\* the patched manager raised HueConnectionError into hue_control_light and
\* the tool returned the failure that names it
C26_Witness ==
    /\ ManagerRaised
    /\ tool.name = "hue_control_light"
    /\ tool.mgr.err.kind = "HueConnectionError"
    /\ tool.pc = "returned"
    /\ tool.result.data.error_type = "HueConnectionError"

\* C26 as stated: every exception of the manager that is not a HueError
\* becomes "An unexpected error occurred" with error_type "UnexpectedError".
C26_AnyOtherIsUnexpected ==
    /\ tool.pc # "raised"
    /\ ManagerRaised =>
         /\ ~tool.result.success
         /\ tool.mgr.err.kind \in HueErrors =>
              (tool.result.message = tool.mgr.err.msg
                 /\ tool.result.data.error_type = tool.mgr.err.kind)
         /\ tool.mgr.err.kind \notin HueErrors => tool.result = Unexpected

\* the arguments the tool boundary must turn away
OutOfRange ==
    \/ tool.light_id < 1
    \/ tool.light_id > 17
    \/ /\ tool.name = "hue_control_light"
       /\ \/ (tool.p.brightness # NoneInt
                /\ (tool.p.brightness < 1 \/ tool.p.brightness > 254))
          \/ (tool.p.color_temp # NoneInt
                /\ (tool.p.color_temp < 154 \/ tool.p.color_temp > 500))

\* C27: a tool call with a light id outside 1..17 (both tools), or with a
\* brightness outside 1..254 or a colour temperature outside 154..500
\* (hue_control_light), returns success=false without invoking the manager:
\* no LightManager operation is started and no bridge call is made.
C27_RejectedAtTheBoundary ==
    (tool.pc # "idle" /\ OutOfRange)
    => /\ tool.pc = "returned"
       /\ ~tool.result.success
       /\ ~tool.invoked
       /\ tool.mgr = NotCalled
       /\ request = NoRequest
       /\ tasks = <<>>
       /\ calls = NoCalls

\* hue_control_light(1, "on", brightness=255) over the LightManager came
\* back with the validation errors and the manager idle
C27_Witness ==
    /\ ToolDone("hue_control_light")
    /\ tool.light_id = 1
    /\ tool.p.brightness = 255
    /\ tool.result.data.shape = "validation_errors"
    /\ ~tool.result.success
    /\ calls = NoCalls

(***************************************************************************)
(* Further claims about _safe_request (checked under SpecReq).            *)
(***************************************************************************)
\* the last response of the call so far, once there is one
LastResponse == rq.hist[Len(rq.hist)]

\* the call got a 2xx response with a body
Answered2xx ==
    /\ Len(rq.hist) > 0
    /\ LastResponse.kind = "http"
    /\ LastResponse.status \in 200..299

FirstHas(body, key) ==
    body.list /\ Len(body.items) > 0 /\ key \in body.items[1].keys

\* C31: the decoding of a 2xx response.  The error entry is looked for
\* first, for GET and PUT alike.  Otherwise, for a PUT whose body is a list,
\* the first element is returned when it contains success, and the list is
\* returned unmodified when it is empty or its first element has neither
\* success nor error; a GET, and a PUT whose body is no list, return the
\* parsed body as it is.
C31_Decoding ==
    Answered2xx =>
        LET body == LastResponse.body
            put == Upper(rq.method) = "PUT"
        IN /\ rq.phase \in {"returned", "raised"}
           /\ (rq.phase = "raised") = FirstHas(body, "error")
           /\ (put /\ FirstHas(body, "success") /\ ~FirstHas(body, "error")) =>
                rq.result.val = ObjBody([shape |-> "item", item |-> body.items[1]])
           /\ (put /\ body.list /\ ~FirstHas(body, "success")
                 /\ ~FirstHas(body, "error")) => rq.result.val = body
           /\ (~put /\ ~FirstHas(body, "error")) => rq.result.val = body
           /\ (~body.list) => rq.result.val = body

\* a PUT answered 200 with [{"success": ...}] returned that element, on a
\* second attempt
C31_Witness ==
    /\ Answered2xx
    /\ Upper(rq.method) = "PUT"
    /\ Len(rq.hist) = 2
    /\ LastResponse.body = ListBody(<<SuccessItem>>)
    /\ rq.phase = "returned"
    /\ rq.result.val = ObjBody([shape |-> "item", item |-> SuccessItem])

\* C31 as stated: for a PUT whose body is a list the first element is
\* returned whenever it contains success.
C31_SuccessElementReturned ==
    (Answered2xx /\ Upper(rq.method) = "PUT"
        /\ FirstHas(LastResponse.body, "success"))
    => /\ rq.phase = "returned"
       /\ rq.result.val =
            ObjBody([shape |-> "item", item |-> LastResponse.body.items[1]])

\* every response so far was a 429
AllRateLimited ==
    /\ Len(rq.hist) >= 1
    /\ \A i \in 1..Len(rq.hist) : Is429(rq.hist[i])

\* C32: when every attempt is answered 429, the request makes exactly
\* retries HTTP calls, sleeps 1.0 * 2^attempt seconds after each 429 (the
\* last one included), and then fails with the HueConnectionError that ends
\* the loop; it never returns a payload and never raises a rate-limit error.
C32_RateLimitExhaustion ==
    AllRateLimited =>
        LET n == Len(rq.hist)
        IN /\ rq.http = n
           /\ n <= rq.retries
           /\ rq.phase \in {"sleeping", "ready", "raised"}
           /\ rq.phase = "sleeping" =>
                rq.sleeps = [i \in 1..n |-> 1000 * Pow2(i - 1)]
           /\ rq.phase = "ready" =>
                (n < rq.retries /\ rq.sleeps = [i \in 1..n |-> 1000 * Pow2(i - 1)])
           /\ rq.phase = "raised" =>
                /\ n = rq.retries
                /\ rq.http = rq.retries
                /\ rq.sleeps = [i \in 1..rq.retries |-> 1000 * Pow2(i - 1)]
                /\ rq.result.t = "raise"
                /\ rq.result.err =
                     Error("HueConnectionError",
                           <<"Unexpected error in request handling">>)
           /\ rq.result.err.kind # "HueRateLimitError"

\* three 429 in a row with retries = 3: three calls, sleeps of 1, 2 and 4
\* seconds, then the HueConnectionError
C32_Witness ==
    /\ AllRateLimited
    /\ rq.retries = 3
    /\ rq.http = 3
    /\ rq.sleeps = <<1000, 2000, 4000>>
    /\ rq.phase = "raised"
    /\ rq.result.err.kind = "HueConnectionError"

\* the call used up its attempts on timeouts, transport errors and 429s
Exhausted ==
    /\ rq.phase = "raised"
    /\ Len(rq.hist) = rq.retries
    /\ \A i \in 1..Len(rq.hist) : IsFault(rq.hist[i]) \/ Is429(rq.hist[i])

\* C35: when the attempts are used up by a mix of faults, the error raised
\* is that of the final attempt alone: HueTimeoutError if it timed out,
\* HueConnectionError if it failed with another transport error or was
\* answered 429, whatever the faults of the earlier attempts.
C35_LastAttemptDecides ==
    Exhausted =>
        /\ rq.result.t = "raise"
        /\ rq.http = rq.retries
        /\ IsTimeout(LastResponse) => rq.result.err.kind = "HueTimeoutError"
        /\ IsNetErr(LastResponse) => rq.result.err.kind = "HueConnectionError"
        /\ Is429(LastResponse) => rq.result.err.kind = "HueConnectionError"

\* a transport error, a 429 and then a timeout: HueTimeoutError
C35_Witness ==
    /\ Exhausted
    /\ rq.hist = <<NetErr, Http(429, NoBody), Timeout>>
    /\ rq.result.err.kind = "HueTimeoutError"

(***************************************************************************)
(* Further claims about LightManager (checked under Spec and SpecRoom).   *)
(***************************************************************************)
\* the control_light invocations that got past their validation
Started ==
    {i \in DOMAIN tasks : tasks[i].kind = "light" /\ tasks[i].pc # "wait"
                          /\ tasks[i].raised.kind = "NoError"}

\* those that sent their PUT
Wrote == {i \in DOMAIN tasks : tasks[i].kind = "light" /\ tasks[i].sent # EmptyState}

\* in this step the GET of invocation i is answered
GetAnswered(i) ==
    /\ i \in DOMAIN tasks
    /\ tasks[i].kind = "light"
    /\ tasks[i].pc = "get"
    /\ tasks'[i].pc # "get"

\* the step that answers the GET of invocation i either builds the state
\* from the light info returned, takes the slot and sends the PUT, or ends
\* the invocation in failure with nothing sent
ReadThenWrite(i) ==
    IF tasks'[i].pc = "put"
    THEN /\ \E r \in CallOutcomes("light_get", tasks[i].light_id, bridgeOn, faults) :
              /\ r.result.t = "return"
              /\ LightState(request.action, request.p, r.result.val).err.kind
                   = "NoError"
              /\ tasks'[i].sent =
                   LightState(request.action, request.p, r.result.val).state
         /\ calls'.put = calls.put + 1
         /\ calls'.light_acquire = calls.light_acquire + 1
    ELSE /\ tasks'[i].pc = "done"
         /\ tasks'[i].sent = EmptyState
         /\ ~tasks'[i].result.success
         /\ calls' = calls
         /\ bridgeOn' = bridgeOn

\* a PUT of a light is sent in no other step
WriteOnlyAfterRead ==
    calls'.put # calls.put => \E i \in DOMAIN tasks : GetAnswered(i)

\* C33: light info is not cached.  Every control_light with a valid id
\* issues its own GET of the light first; the PUT is issued, and the light
\* slot taken, only in the step in which that GET was answered with a light
\* info from which the state was built; when the GET fails, or the state
\* cannot be built, the operation ends in failure with no PUT and no slot.
C33_ReadBeforeWrite ==
    /\ [](request.op \in {"control_light", "control_room"} =>
            (/\ calls.get = Cardinality(Started)
             /\ calls.put = Cardinality(Wrote)
             /\ calls.light_acquire = calls.put
             /\ Wrote \subseteq Started
             /\ \A i \in Wrote : tasks[i].pc \in {"put", "done"}))
    /\ [][(\A i \in DOMAIN tasks : GetAnswered(i) => ReadThenWrite(i))
            /\ WriteOnlyAfterRead]_vars

\* control_light of light 1: the GET timed out, the operation failed, and
\* neither a slot nor a PUT followed
C33_Witness ==
    /\ request.op = "control_light"
    /\ request.light_id = 1
    /\ Started = {1}
    /\ tasks[1].pc = "done"
    /\ thrown.kind = "HueTimeoutError"
    /\ calls.get = 1
    /\ calls.put = 0
    /\ calls.light_acquire = 0

(***************************************************************************)
(* SpecClient: coroutines calling the operations of the one AsyncHueClient *)
(* (hue_client.py, lines 217-251). control_light and control_group take   *)
(* their slot and then run _safe_request; the GET operations run          *)
(* _safe_request alone. A coroutine can be cancelled wherever it is       *)
(* suspended. The model follows one _safe_request at a time: a slot is    *)
(* granted when the request before it has ended.                          *)
(***************************************************************************)
MaxClientCalls == 3

\* an attempt is answered 429 (retried after a backoff, lines 164-167) or 200
ClientResponses == {Http(429, NoBody), Http(200, ListBody(<<SuccessItem>>))}

\* get_light_state and get_config; get_lights and get_groups differ from
\* them in the endpoint only
ClientGets == {<<"lights", 1>>, <<"config">>}

\* lines 232 and 240
PutEndpoint(kind) ==
    IF kind = "light" THEN <<"lights", 1, "state">> ELSE <<"groups", 0, "action">>

Requesting == rq.phase \in {"ready", "sleeping"}

\* lines 233 and 241: the acquire returned, _safe_request is called
PutStarts ==
    IF Len(grants') > Len(grants)
    THEN /\ ~Requesting
         /\ rq' = RqStart("PUT", PutEndpoint(grants'[Len(grants')].kind), DefaultRetries)
    ELSE UNCHANGED rq

ClientCall(c) ==
    /\ calls.light_acquire + calls.group_acquire < MaxClientCalls
    /\ AcquireCall(c)
    /\ Len(limiters') = Len(limiters)
    /\ PutStarts
    /\ UNCHANGED <<now, tool, mgrRest>>

ClientEnter(c) == AcquireEnter(c) /\ PutStarts /\ UNCHANGED <<now, tool, mgrRest>>

ClientWake(c) == AcquireWake(c) /\ PutStarts /\ UNCHANGED <<now, tool, mgrRest>>

\* a GET operation that would take a light slot first
ClientGet_Gated ==
    /\ ~Requesting
    /\ limiters[1].light_tokens >= 1
    /\ \E e \in ClientGets : rq' = RqStart("GET", e, DefaultRetries)
    /\ limiters' = [limiters EXCEPT ![1].light_tokens = @ - 1]
    /\ UNCHANGED <<now, callers, grants, tool, mgrVars>>

\* lines 217-225 and 243-251: no acquire before _safe_request
ClientGet ==
    /\ ~Requesting
    /\ \E e \in ClientGets : rq' = RqStart("GET", e, DefaultRetries)
    /\ UNCHANGED <<limVars, tool, mgrVars>>

ClientAttempt ==
    /\ rq.phase = "ready"
    /\ \E resp \in ClientResponses : rq' = RqAfter(rq, resp)
    /\ UNCHANGED <<mgrVars, limVars, tool>>

\* asyncio.Lock.acquire cancelled: the waiter's future leaves the queue
Leave(kind, L, c) ==
    IF kind = "light"
    THEN [L EXCEPT !.light_waiters = SelectSeq(@, LAMBDA d : d # c)]
    ELSE [L EXCEPT !.group_waiters = SelectSeq(@, LAMBDA d : d # c)]

\* "async with" left by an exception: __aexit__ releases the lock
Release(kind, L) ==
    IF kind = "light" THEN [L EXCEPT !.light_lock = 0] ELSE [L EXCEPT !.group_lock = 0]

\* a cancellation that leaves the lock with the cancelled sleeper
Cancelled_KeepsLock(kind, L, c, pc) ==
    IF pc = "lock" THEN Leave(kind, L, c) ELSE L

\* CancelledError raised at the await the caller is suspended in: line 63 or
\* 93 (waiting for the lock), line 77 or 100 (asleep inside it)
Cancelled(kind, L, c, pc) ==
    IF pc = "lock" THEN Leave(kind, L, c) ELSE Release(kind, L)

CancelAcquire(c) ==
    /\ callers[c].pc \in {"lock", "sleep"}
    /\ LET k == callers[c]
       IN limiters' = [limiters EXCEPT ![k.lim] = Cancelled(k.kind, @, c, k.pc)]
    /\ callers' = [callers EXCEPT ![c] = NoCaller]
    /\ UNCHANGED <<grants, now, rq, tool, mgrVars>>

\* CancelledError raised in _safe_request, at the HTTP call or at a backoff
\* sleep (lines 158-213: no except clause catches it)
CancelRequest ==
    /\ Requesting
    /\ rq' = [rq EXCEPT !.phase = "raised", !.result = Raise("CancelledError", <<>>)]
    /\ UNCHANGED <<limVars, tool, mgrVars>>

ClientNext ==
    \/ \E c \in Callers : ClientCall(c)
    \/ \E c \in Callers : ClientEnter(c)
    \/ \E c \in Callers : ClientWake(c)
    \/ ClientGet
    \/ ClientAttempt
    \/ ReqWake
    \/ Tick
    \/ \E c \in Callers : CancelAcquire(c)
    \/ CancelRequest

SpecClient == LimInit /\ [][ClientNext]_vars

(***************************************************************************)
(* Claims about cancellation and the limiter's frame (checked under       *)
(* SpecClient).                                                           *)
(***************************************************************************)
\* every lock is free or held by the caller asleep inside its section, and
\* the queue of a lock holds the callers still waiting for it
NoLockLeaked ==
    \A i \in DOMAIN limiters :
        /\ Inside("light", i) =
             IF limiters[i].light_lock = 0 THEN {} ELSE {limiters[i].light_lock}
        /\ Inside("group", i) =
             IF limiters[i].group_lock = 0 THEN {} ELSE {limiters[i].group_lock}
        /\ Waiting("light", i) = Range(limiters[i].light_waiters)
        /\ Waiting("group", i) = Range(limiters[i].group_waiters)

\* the step in which caller c, suspended in an acquire, is cancelled
CancelStep(c) ==
    /\ callers[c].pc \in {"lock", "sleep"}
    /\ callers'[c].pc = "idle"
    /\ grants' = grants

\* what the cancellation of c leaves behind
CancelLeaves(c) ==
    LET k == callers[c]
        L == limiters[k.lim]
        M == limiters'[k.lim]
    IN /\ M.light_tokens = L.light_tokens
       /\ M.light_last_refill = L.light_last_refill
       /\ M.group_last_call = L.group_last_call
       /\ LockOf(k.kind, M) = IF k.pc = "sleep" THEN 0 ELSE LockOf(k.kind, L)
       /\ WaitersOf(k.kind, M) = SelectSeq(WaitersOf(k.kind, L), LAMBDA d : d # c)
       /\ \A j \in DOMAIN limiters \ {k.lim} : limiters'[j] = limiters[j]
       /\ \A d \in Callers \ {c} : callers'[d] = callers[d]

\* the step in which a _safe_request in flight is abandoned
RequestAbandoned ==
    /\ rq.phase \in {"ready", "sleeping"}
    /\ rq'.phase = "raised"
    /\ rq'.result.err.kind = "CancelledError"

AcquireCancelSafe == \A c \in Callers : CancelStep(c) => CancelLeaves(c)

RequestCancelSafe ==
    RequestAbandoned => (limiters' = limiters /\ callers' = callers /\ grants' = grants)

\* C34: a caller cancelled while suspended in acquire_light_token or
\* acquire_group_token, waiting for the lock or asleep inside it, leaves the
\* lock released (or its place in the queue given up), consumes no token and
\* advances no group timestamp, so no lock is ever left with a caller that is
\* gone and later callers acquire; a request abandoned in flight or during a
\* retry backoff leaves the limiter as it is.
C34_CancelLeavesLimiterUsable ==
    /\ [](NoLockLeaked)
    /\ [][AcquireCancelSafe]_vars
    /\ [][RequestCancelSafe]_vars

\* a control_group call was granted, a second one was cancelled inside its
\* acquire, and a third, called later, slept and was granted: three acquires
\* called, two slots granted, nobody left inside
C34_Witness ==
    /\ calls.group_acquire = 3
    /\ calls.light_acquire = 0
    /\ Len(grants) = 2
    /\ grants[2].slept
    /\ Active = {}
    /\ limiters[1].group_lock = 0
    /\ limiters[1].group_last_call = grants[2].at

\* the step grants a slot of kind
GrantStep(kind) == Len(grants') > Len(grants) /\ grants'[Len(grants')].kind = kind

\* the step is one of caller c inside an acquire of kind
StepOf(c, kind) ==
    /\ callers'[c] # callers[c]
    /\ callers[c].kind = kind \/ callers'[c].kind = kind

\* a light slot granted takes one token off the refilled bucket of its
\* limiter, and no other step takes a token
OneTokenPerGrant ==
    \A i \in DOMAIN limiters :
        IF GrantStep("light") /\ grants'[Len(grants')].lim = i
        THEN limiters'[i].light_tokens = Refill(limiters[i], now).light_tokens - 1
        ELSE limiters'[i].light_tokens >= limiters[i].light_tokens

\* the group timestamp is written by the step that grants a group slot, once
OneTimestampPerGrant ==
    \A i \in DOMAIN limiters :
        IF GrantStep("group") /\ grants'[Len(grants')].lim = i
        THEN limiters'[i].group_last_call = now
        ELSE limiters'[i].group_last_call = limiters[i].group_last_call

\* a step of _safe_request, or the start of a GET, leaves the limiter alone
RequestLeavesLimiter ==
    (rq' # rq /\ grants' = grants) => (limiters' = limiters /\ callers' = callers)

\* the two sections keep to their own fields
SectionsApart ==
    \A c \in Callers, i \in DOMAIN limiters :
        /\ StepOf(c, "light") =>
             /\ limiters'[i].group_last_call = limiters[i].group_last_call
             /\ limiters'[i].group_lock = limiters[i].group_lock
             /\ limiters'[i].group_waiters = limiters[i].group_waiters
        /\ StepOf(c, "group") =>
             /\ limiters'[i].light_tokens = limiters[i].light_tokens
             /\ limiters'[i].light_last_refill = limiters[i].light_last_refill
             /\ limiters'[i].light_lock = limiters[i].light_lock
             /\ limiters'[i].light_waiters = limiters[i].light_waiters

\* C36: a client control_light call takes exactly one light token and a
\* control_group call records exactly one group timestamp, however many HTTP
\* attempts its PUT needs; the GET operations leave the limiter unchanged; a
\* light acquire never changes the group timestamp and a group acquire never
\* changes the light token count.
C36_LimiterFrame ==
    /\ [](/\ Cardinality(LightGrants) + Cardinality(Acquirers("light"))
               <= calls.light_acquire
          /\ Cardinality(GroupGrants) + Cardinality(Acquirers("group"))
               <= calls.group_acquire)
    /\ [][OneTokenPerGrant]_vars
    /\ [][OneTimestampPerGrant]_vars
    /\ [][RequestLeavesLimiter]_vars
    /\ [][SectionsApart]_vars

\* the PUT of the one control_light call made was answered 429 twice and is
\* at its third attempt: one token is gone from the full bucket
C36_Witness ==
    /\ calls.light_acquire = 1
    /\ calls.group_acquire = 0
    /\ Len(grants) = 1
    /\ rq.method = "PUT"
    /\ rq.endpoint = PutEndpoint("light")
    /\ rq.http = 3
    /\ limiters[1].light_tokens = light_rate_limit - 1

(***************************************************************************)
(* Further claims about control_room (checked under Spec and SpecRoom).   *)
(***************************************************************************)
\* C37: in every result of a named room the successful and the failed
\* operations add up to the number of lights of the room, data.details has
\* one entry per light in the order of the mapping, and lights_affected is
\* the room's whole light list, failed lights included.
C37_RoomResultComplete ==
    (NamedRoomRequest /\ response.returned)
    => LET light_ids == Lookup(room_mappings, request.room)
       IN /\ response.data.successful_operations + response.data.failed_operations
               = Len(light_ids)
          /\ DOMAIN response.data.details = DOMAIN light_ids
          /\ \A i \in DOMAIN light_ids :
               response.data.details[i].light_id = light_ids[i]
          /\ response.lights_affected = light_ids

\* the kitchen's result with some of its four lights failed and some not
C37_Witness ==
    /\ NamedRoomRequest
    /\ request.room = "kitchen"
    /\ response.returned
    /\ response.data.failed_operations >= 1
    /\ response.data.successful_operations >= 1
    /\ response.lights_affected = <<10, 12, 13, 17>>

(***************************************************************************)
(* SpecToggle: two control_light calls for the same light run as          *)
(* concurrent coroutines of the event loop (two hue_control_light tool    *)
(* calls being served together). Each call is a task of its own with its  *)
(* own client; nothing in control_light (lines 242-297) orders them.      *)
(***************************************************************************)
ToggleRequests == {LightControlRequest(l, "toggle", DefaultParams) : l \in {1, 2, 7}}

ToggleProfiles == {{}, {"timeout"}}

CallToggle ==
    /\ Idle
    /\ \E req \in ToggleRequests, f \in ToggleProfiles : EnterControlLight(req, f)
    /\ UNCHANGED <<limVars, rq, tool, room_mappings, semaphore, bridgeOn>>

\* the same request made again, the first call finished or not
CallToggleAgain ==
    /\ request.op = "control_light"
    /\ Len(tasks) = 1
    /\ tasks' = Append(tasks, Task("light", request.light_id, "get", FALSE))
    /\ calls' = [calls EXCEPT !.clients = @ + 1, !.get = @ + 1]
    /\ UNCHANGED <<limVars, rq, tool, room_mappings, request, faults, semaphore,
                   bridgeOn, response, thrown, escaped>>

ToggleNext ==
    \/ CallToggle
    \/ CallToggleAgain
    \/ \E i \in DOMAIN tasks : LightGetDone(i)
    \/ \E i \in DOMAIN tasks : LightPutDone(i)

SpecToggle == Init /\ [][ToggleNext]_vars

\* both toggles of the light are over and both succeeded
BothToggled ==
    /\ request.op = "control_light"
    /\ Len(tasks) = 2
    /\ \A i \in DOMAIN tasks : tasks[i].pc = "done" /\ tasks[i].result.success

\* C38: a toggle is atomic with respect to the other operations on its
\* light: two concurrent toggles that both succeed leave the light in the
\* state it had at the start.
C38_TogglesCancelOut ==
    BothToggled => bridgeOn[request.light_id] = (request.light_id % 2 = 1)

(***************************************************************************)
(* Termination of control_room (checked under SpecRoomFair).              *)
(***************************************************************************)
\* the slots of the fan-out's semaphore are those of the tasks in flight,
\* and all are back when the aggregate is returned
SlotsAccounted ==
    NamedRoomRequest
    => /\ semaphore = SemaphoreLimit - Cardinality(InFlight)
       /\ response.returned =>
            /\ InFlight = {}
            /\ semaphore = SemaphoreLimit
            /\ \A i \in DOMAIN tasks : tasks[i].pc = "done"

SomeWaitsForSlot == \E i \in DOMAIN tasks : tasks[i].pc = "wait"

\* C39: as long as every bridge call ends, every control_room call returns:
\* no task of the fan-out waits for a slot for ever, every slot taken is
\* given back, and none is in use when the aggregate is produced.
C39_ControlRoomReturns ==
    /\ [](SlotsAccounted)
    /\ (request.op = "control_room") ~> (response.returned /\ ~SomeWaitsForSlot)

\* the result of a room with more lights than slots, the light that had to
\* wait among the failed ones: every slot is back
C39_Witness ==
    /\ NamedRoomRequest
    /\ Len(tasks) > SemaphoreLimit
    /\ response.returned
    /\ ~tasks[Len(tasks)].result.success
    /\ tasks[1].result.success
    /\ semaphore = SemaphoreLimit

(***************************************************************************)
(* The rate of the light slots (checked under SpecLimiter).               *)
(***************************************************************************)
\* the light slots limiter l granted from time a to time b
GrantedIn(l, a, b) ==
    {g \in DOMAIN grants : /\ grants[g].kind = "light"
                           /\ grants[g].lim = l
                           /\ a <= grants[g].at
                           /\ grants[g].at <= b}

\* C40: a limiter of capacity and refill rate N grants at most N + N*T light
\* slots in any window of T seconds (T is (b - a) / TicksPerSecond here).
C40_WindowBound ==
    \A l \in DOMAIN limiters :
        \A a \in 0..now, b \in 0..now :
            a <= b =>
                Cardinality(GrantedIn(l, a, b))
                    <= light_rate_limit
                         + (light_rate_limit * (b - a)) \div TicksPerSecond

\* the shared limiter granted its whole bucket and, one token's time later,
\* one slot more: the bound is met
C40_Witness ==
    \E a \in 0..now :
        /\ a < now
        /\ Cardinality(GrantedIn(1, a, now))
             = light_rate_limit + (light_rate_limit * (now - a)) \div TicksPerSecond
        /\ Cardinality(GrantedIn(1, a, a)) = light_rate_limit

====
